---------------------------- MODULE Spec2Model ----------------------------
(***************************************************************************)
(* A model of the automation core of AdvancedDiscordMCP                    *)
(* (src/src/discord_mcp/server.py): the rule store and the event handlers  *)
(* that dispatch automation rules, the deferred task scheduler, and the    *)
(* auto-moderation scanner.                                                *)
(*                                                                         *)
(* The process is a single asyncio event loop: code between two awaits is  *)
(* atomic, and every await on the platform (fetch_member, fetch_channel,   *)
(* send, add_roles, remove_roles, asyncio.sleep) is a suspension point at  *)
(* which any other handler, tool call or timer may run.  Each action below *)
(* is one such atomic stretch of code.                                     *)
(*                                                                         *)
(* JSON scalars are modelled as strings: "None" is Python's None (also an  *)
(* absent key read with .get), "absent" marks a key that is not in a       *)
(* mapping, "true"/"false" are the booleans, a leading "#" marks an int    *)
(* ("#1" is the int 1, "1" the string "1").                                *)
(***************************************************************************)
EXTENDS Integers, Sequences, FiniteSets, TLC

VARIABLES
    discord_client,            \* "client" once on_ready ran, "None" otherwise
    automation_rules,          \* the rule store, in insertion order
    automation_rule_counter,   \* the rule id counter
    handlers,                  \* the outstanding event handlers, per slot
    member_roles,              \* the roles the member holds on the platform
    lastCall,                  \* the outcome of the latest tool call
    scheduled_tasks,           \* the task map: id -> record
    scheduled_task_counter,    \* the task id counter
    runners,                   \* the run_scheduled_task coroutines, per task id
    now,                       \* the wall clock (whole time units)
    moderation                 \* the latest auto_moderate_by_pattern run

engineVars == <<discord_client, automation_rules, automation_rule_counter,
                handlers, member_roles>>
schedVars == <<scheduled_tasks, scheduled_task_counter, runners, now>>
vars == <<discord_client, automation_rules, automation_rule_counter, handlers,
          member_roles, lastCall, scheduled_tasks, scheduled_task_counter,
          runners, now, moderation>>

----------------------------------------------------------------------------
(* Bounds of the model.                                                    *)

\* create_automation_rule is called while the rule counter is below this
MaxRuleCounter == 2

\* schedule_task and send_scheduled_message are called while the task
\* counter is below this
MaxTaskCounter == 2

\* the clock stops ticking here
MaxClock == 1

\* the most messages channel.history returns to one auto-moderation run
MaxWindow == 2

----------------------------------------------------------------------------
(* Python values.                                                          *)

\* bool(v) for the scalars of the model
Truthy(v) == v \notin {"None", "absent", "", "false", "#0"}

\* str(v): an int prints as its digits, a string is itself
Str(v) ==
    CASE v = "#0" -> "0"
      [] v = "#1" -> "1"
      [] v = "#2" -> "2"
      [] v = "#10" -> "10"
      [] v = "#20" -> "20"
      [] OTHER -> v

\* the strings int() accepts; int() of anything else raises ValueError
IntParses(v) == v \in {"5", "7", "9", "#5", "#7", "#9"}

\* dict.get(key, default) on a mapping whose absent keys read "absent"
Get(v, default) == IF v = "absent" THEN default ELSE v

----------------------------------------------------------------------------
(* The platform, as far as the handlers read it.                           *)

Guilds == {"#1", "#2"}          \* guild ids (ints)
Emojis == {"e1", "e2"}          \* str(reaction.emoji)
MessageIds == {"#10", "#20"}    \* message ids (ints)
GuildRoles == {"7"}             \* the role ids guild.get_role finds

\* int(v) as the key guild.get_role looks up
RoleOf(v) == IF v \in {"7", "#7"} THEN "7" ELSE "None"

----------------------------------------------------------------------------
(* The rule store: create_automation_rule.                                 *)

\* message content is a sequence of pieces of text, the placeholders
\* "{user}", "{username}", "{server}" and "{emoji}" each being one piece;
\* NoContent marks a payload without the content key
NoContent == <<"absent">>

NoPayload ==
    [channel_id |-> "absent", role_id |-> "absent", message_id |-> "absent",
     remove_on_unreact |-> "absent", content |-> NoContent]

BaseArgs ==
    [server_id |-> "absent", name |-> "rule", trigger_type |-> "member_join",
     trigger_value |-> "absent", action_type |-> "log",
     action_payload |-> NoPayload, enabled |-> "absent"]

SendPayload == [NoPayload EXCEPT !.channel_id = "5"]
RolePayload == [NoPayload EXCEPT !.role_id = "7"]

\* the arguments create_automation_rule is called with: for each trigger
\* the three actions, and for the role action one filter field at a time
JoinArgs ==
    {[BaseArgs EXCEPT !.action_type = "send_message", !.action_payload = SendPayload],
     [BaseArgs EXCEPT !.action_type = "assign_role", !.action_payload = RolePayload],
     BaseArgs,
     [BaseArgs EXCEPT !.action_type = "assign_role", !.action_payload = RolePayload,
                      !.enabled = "false"],
     [BaseArgs EXCEPT !.action_type = "assign_role", !.action_payload = RolePayload,
                      !.server_id = "1"]}

ReactionBase == [BaseArgs EXCEPT !.trigger_type = "reaction_added"]
ReactionRole ==
    [ReactionBase EXCEPT !.action_type = "assign_role", !.action_payload = RolePayload]

ReactionArgs ==
    {ReactionRole,
     [ReactionBase EXCEPT !.action_type = "send_message", !.action_payload = SendPayload],
     ReactionBase,
     [ReactionRole EXCEPT !.enabled = "false"],
     [ReactionRole EXCEPT !.server_id = "1"],
     [ReactionRole EXCEPT !.trigger_value = "e1"],
     [ReactionRole EXCEPT !.action_payload.message_id = "10"],
     [ReactionRole EXCEPT !.action_payload.remove_on_unreact = "false"]}

KeywordArgs ==
    {[BaseArgs EXCEPT !.trigger_type = "message_contains", !.trigger_value = "kw"]}

\* calls that leave out a key the handler indexes with arguments[...]
MalformedArgs ==
    {[BaseArgs EXCEPT !.name = "absent"],
     [BaseArgs EXCEPT !.trigger_type = "absent"],
     [BaseArgs EXCEPT !.action_type = "absent"]}

RuleArgSpace == JoinArgs \cup ReactionArgs \cup KeywordArgs \cup MalformedArgs

\* the keys read as arguments["..."]: a missing one raises KeyError
RuleArgsComplete(args) ==
    /\ args.name # "absent"
    /\ args.trigger_type # "absent"
    /\ args.action_type # "absent"

\* the rule dict lines 3788-3798 build (created_at, a timestamp, is left out)
NewRule(rule_id, args) ==
    [id |-> rule_id,
     server_id |-> Get(args.server_id, "None"),
     name |-> args.name,
     trigger_type |-> args.trigger_type,
     trigger_value |-> Get(args.trigger_value, "None"),
     action_type |-> args.action_type,
     action_payload |-> args.action_payload,
     enabled |-> Get(args.enabled, "true")]

\* error: "none" when the call returned, else the exception it raised;
\* args: the arguments of a scheduling call
NoArgs == [none |-> TRUE]

NoCall == [tool |-> "none", error |-> "none", args |-> NoArgs,
           rule_counter_before |-> 0,
           rules_before |-> <<>>, task_counter_before |-> 0,
           tasks_before |-> <<>>, runners_before |-> <<>>]

CallRecord(tool, args, error) ==
    [tool |-> tool, error |-> error, args |-> args,
     rule_counter_before |-> automation_rule_counter,
     rules_before |-> automation_rules,
     task_counter_before |-> scheduled_task_counter,
     tasks_before |-> scheduled_tasks,
     runners_before |-> runners]

\* no tool call's outcome is waiting to be handed to its caller
Quiet == lastCall.tool = "none"

\* the outcome of a tool call reaches the caller
CallReturns ==
    /\ ~Quiet
    /\ lastCall' = NoCall
    /\ UNCHANGED <<engineVars, schedVars, moderation>>

\* require_discord_client: the wrapper raises before the tool body runs
NotReadyCall(tool, args) ==
    /\ discord_client = "None"
    /\ lastCall' = CallRecord(tool, args, "RuntimeError")

\* next_automation_rule_id: the counter after its increment, which is the
\* id handed out
NextAutomationRuleId == automation_rule_counter + 1

\* call_tool("create_automation_rule", args): the id is drawn first, then the
\* rule dict is built (KeyError on a missing key), then the rule is stored
CreateAutomationRule(args) ==
    /\ Quiet
    /\ automation_rule_counter < MaxRuleCounter
    /\ \/ /\ NotReadyCall("create_automation_rule", NoArgs)
          /\ UNCHANGED <<automation_rules, automation_rule_counter>>
       \/ /\ discord_client # "None"
          /\ automation_rule_counter' = NextAutomationRuleId
          /\ IF RuleArgsComplete(args)
             THEN /\ automation_rules' =
                        Append(automation_rules,
                               NewRule(NextAutomationRuleId, args))
                  /\ lastCall' = CallRecord("create_automation_rule", NoArgs, "none")
             ELSE /\ automation_rules' = automation_rules
                  /\ lastCall' = CallRecord("create_automation_rule", NoArgs, "KeyError")
    /\ UNCHANGED <<discord_client, handlers, member_roles, schedVars, moderation>>

\* on_ready / on_disconnect
OnReady ==
    /\ Quiet
    /\ discord_client = "None"
    /\ discord_client' = "client"
    /\ UNCHANGED <<automation_rules, automation_rule_counter, handlers,
                   member_roles, lastCall, schedVars, moderation>>

OnDisconnect ==
    /\ Quiet
    /\ discord_client = "client"
    /\ discord_client' = "None"
    /\ UNCHANGED <<automation_rules, automation_rule_counter, handlers,
                   member_roles, lastCall, schedVars, moderation>>

----------------------------------------------------------------------------
(* The event handlers: on_member_join, on_reaction_add, on_reaction_remove *)

HandlerSlots == {"h1", "h2"}

\* a handler that is not running.  entered: the loop over the store began;
\* examined: the rules whose filters after the enabled check were evaluated;
\* dispatched: the rules whose try block was entered; calls: the platform
\* calls issued on behalf of a rule; raised: the rules whose try block
\* raised; failures: the rules the except clause logged an error for
IdleHandler ==
    [kind |-> "none", pc |-> "idle", guild |-> "None", name |-> "None",
     emoji |-> "None", msg |-> "None", roles_seen |-> {}, pos |-> 0, iter_size |-> 0,
     entered |-> FALSE, examined |-> <<>>, dispatched |-> <<>>,
     calls |-> <<>>, raised |-> <<>>, failures |-> <<>>, error |-> "none"]

\* the events fed to the handlers: a base event and one field changed at a time
JoinEvents ==
    {[guild |-> g, name |-> "bob", emoji |-> "None", msg |-> "None",
      bot |-> FALSE, text |-> TRUE] : g \in Guilds}

BaseReaction ==
    [guild |-> "#1", name |-> "bob", emoji |-> "e1", msg |-> "#10",
     bot |-> FALSE, text |-> TRUE]

ReactionEvents ==
    {BaseReaction,
     [BaseReaction EXCEPT !.guild = "#2"],
     [BaseReaction EXCEPT !.emoji = "e2"],
     [BaseReaction EXCEPT !.msg = "#20"],
     [BaseReaction EXCEPT !.bot = TRUE],
     [BaseReaction EXCEPT !.text = FALSE]}

\* the trigger tag a handler compares trigger_type with
EventTrigger(kind) ==
    IF kind = "member_join" THEN "member_join" ELSE "reaction_added"

\* a loop that lacks the enabled check
RuleEnabledIgnored(rule) == TRUE

\* `if not rule.get("enabled", True): continue`
RuleEnabled(rule) == Truthy(rule.enabled)

\* a removal handler that lacks the remove_on_unreact check
RemoveOnUnreactIgnored(rule) == TRUE

\* `if not action_payload.get("remove_on_unreact", True): continue`
RemoveOnUnreact(rule) ==
    Truthy(Get(rule.action_payload.remove_on_unreact, "true"))

\* a loop that lacks the trigger_type test
LaterFilterAnyTrigger(h, rule) ==
    LET server_id == rule.server_id
        trigger_value == rule.trigger_value
        message_id == Get(rule.action_payload.message_id, "None")
    IN  IF Truthy(server_id) /\ Str(h.guild) # Str(server_id) THEN 3
        ELSE IF h.kind = "member_join" THEN 0
        ELSE IF Truthy(trigger_value) /\ h.emoji # trigger_value THEN 4
        ELSE IF Truthy(message_id) /\ Str(h.msg) # Str(message_id) THEN 5
        ELSE IF h.kind = "reaction_remove" /\ ~RemoveOnUnreact(rule) THEN 6
        ELSE 0

\* a matcher that takes a reaction rule without trigger_value for malformed
\* and never matches it
LaterFilterValueRequired(h, rule) ==
    LET server_id == rule.server_id
        trigger_value == rule.trigger_value
        message_id == Get(rule.action_payload.message_id, "None")
    IN  IF rule.trigger_type # EventTrigger(h.kind) THEN 2
        ELSE IF Truthy(server_id) /\ Str(h.guild) # Str(server_id) THEN 3
        ELSE IF h.kind = "member_join" THEN 0
        ELSE IF h.emoji # trigger_value THEN 4
        ELSE IF Truthy(message_id) /\ Str(h.msg) # Str(message_id) THEN 5
        ELSE IF h.kind = "reaction_remove" /\ ~RemoveOnUnreact(rule) THEN 6
        ELSE 0

\* the filters of the loop body after the enabled check, in the code's
\* order: the number of the first one that says `continue`, 0 when none
LaterFilter(h, rule) ==
    LET server_id == rule.server_id
        trigger_value == rule.trigger_value
        message_id == Get(rule.action_payload.message_id, "None")
    IN  IF rule.trigger_type # EventTrigger(h.kind) THEN 2
        ELSE IF Truthy(server_id) /\ Str(h.guild) # Str(server_id) THEN 3
        ELSE IF h.kind = "member_join" THEN 0
        ELSE IF Truthy(trigger_value) /\ h.emoji # trigger_value THEN 4
        ELSE IF Truthy(message_id) /\ Str(h.msg) # Str(message_id) THEN 5
        ELSE IF h.kind = "reaction_remove" /\ ~RemoveOnUnreact(rule) THEN 6
        ELSE 0

\* `role not in member.roles` (on_reaction_add); on_member_join has no such test
AddRoleWanted(h, role) ==
    IF h.kind = "member_join" THEN TRUE ELSE role \notin h.roles_seen

\* `role in member.roles` (on_reaction_remove)
RemoveRoleWanted(h, role) == role \in h.roles_seen

\* the try block of one rule up to its first await: "await" (a platform call
\* was issued and the handler is suspended in it), "pass" (nothing to do) or
\* "raise" (an exception reached the except clause)
TryBody(h, rule) ==
    LET payload == rule.action_payload
        channel_id == Get(payload.channel_id, "None")
        role_id == Get(payload.role_id, "None")
        role == RoleOf(role_id)
        pass == [out |-> "pass", op |-> "none", arg |-> "None"]
        raise == [out |-> "raise", op |-> "none", arg |-> "None"]
        sendBranch ==
            IF ~Truthy(channel_id) THEN pass
            ELSE IF discord_client = "None" \/ ~IntParses(channel_id) THEN raise
            ELSE [out |-> "await", op |-> "fetch_channel", arg |-> Str(channel_id)]
        roleBranch(op, wanted) ==
            IF ~Truthy(role_id) THEN pass
            ELSE IF ~IntParses(role_id) THEN raise
            ELSE IF role \in GuildRoles /\ wanted
                 THEN [out |-> "await", op |-> op, arg |-> role]
                 ELSE pass
    IN  CASE h.kind = "reaction_remove" ->
                IF rule.action_type = "assign_role"
                THEN roleBranch("remove_roles", RemoveRoleWanted(h, role))
                ELSE pass
          [] rule.action_type = "send_message" -> sendBranch
          [] rule.action_type = "assign_role" ->
                roleBranch("add_roles", AddRoleWanted(h, role))
          [] OTHER -> pass

\* a platform call issued on behalf of a rule; held: whether the member's
\* roles, as the handler sees them, contain the role at that moment;
\* content: the text of a send
CallEntry(h, rule_id, op, arg) ==
    [rule |-> rule_id, op |-> op, arg |-> arg, held |-> arg \in h.roles_seen,
     client |-> discord_client, content |-> <<>>]

\* member.mention and guild.name
Mention == "<@42>"
GuildName(guild) == IF guild = "#1" THEN "Guild One" ELSE "Guild Two"

\* content.replace(placeholder, value)
Replace(content, placeholder, value) ==
    [i \in 1..Len(content) |->
        IF content[i] = placeholder THEN value ELSE content[i]]

\* the content a send_message rule sends: action_payload.get("content",
\* default) and the chain of replace calls of the handler
FormatContent(h, rule) ==
    LET given == rule.action_payload.content
        content == IF given # NoContent THEN given
                   ELSE IF h.kind = "member_join" THEN <<"Welcome to the server!">>
                   ELSE <<"Reaction received!">>
        named == Replace(Replace(content, "{user}", Mention), "{username}", h.name)
    IN  IF h.kind = "member_join"
        THEN Replace(named, "{server}", GuildName(h.guild))
        ELSE Replace(named, "{emoji}", h.emoji)

\* `except Exception as exc: logger.error(...)`: the error is logged for the
\* rule and the loop goes on
LogFailure(h, rule_id) == [h EXCEPT !.failures = Append(@, rule_id)]

RECURSIVE Scan(_, _)
\* the for loop from its i-th item to the next await, or to its end.  The
\* dict iterator raises RuntimeError when the dict's size changed since the
\* loop began.
Scan(h, i) ==
    IF Len(automation_rules) # h.iter_size
    THEN [h EXCEPT !.pc = "crashed", !.error = "dict_changed", !.pos = i]
    ELSE IF i > Len(automation_rules)
    THEN [h EXCEPT !.pc = "done", !.pos = i]
    ELSE LET rule == automation_rules[i]
         IN  IF ~RuleEnabled(rule) THEN Scan(h, i + 1)
             ELSE LET h1 == [h EXCEPT !.examined = Append(@, rule.id)]
                  IN  IF LaterFilter(h, rule) # 0 THEN Scan(h1, i + 1)
                      ELSE LET h2 == [h1 EXCEPT !.dispatched = Append(@, rule.id)]
                               t == TryBody(h, rule)
                           IN  CASE t.out = "pass" -> Scan(h2, i + 1)
                                 [] t.out = "raise" ->
                                        Scan(LogFailure(
                                               [h2 EXCEPT !.raised = Append(@, rule.id)],
                                               rule.id), i + 1)
                                 [] OTHER ->
                                        [h2 EXCEPT
                                           !.pc = t.op, !.pos = i,
                                           !.calls = Append(@,
                                               CallEntry(h, rule.id, t.op, t.arg))]

\* a loop body without the try/except: the exception ends the handler
AfterRaisePropagates(h) == [h EXCEPT !.pc = "crashed", !.error = "exception"]

\* an except clause that tries the failed rule again
AfterRaiseRetry(h) == Scan(LogFailure(h, automation_rules[h.pos].id), h.pos)

\* an exception raised by the awaited call of the current rule
AfterRaise(h) == Scan(LogFailure(h, automation_rules[h.pos].id), h.pos + 1)

\* the awaited call raised: the exception enters the handler's try block
Raise(h) == [h EXCEPT !.raised = Append(@, automation_rules[h.pos].id)]

\* a loop that starts over after each action
AfterReturnFromStart(h) == Scan(h, 1)

\* the awaited call of the current rule returned and the try block ended
AfterReturn(h) == Scan(h, h.pos + 1)

StartHandler(kind, ev) ==
    [IdleHandler EXCEPT !.kind = kind, !.guild = ev.guild, !.name = ev.name,
                        !.emoji = ev.emoji, !.msg = ev.msg]

\* on_member_join(member): the loop starts at once, on the member object of
\* the event
OnMemberJoin(slot, ev) ==
    /\ Quiet
    /\ handlers[slot].pc = "idle"
    /\ handlers' = [handlers EXCEPT ![slot] =
          IF discord_client = "None"
          THEN [StartHandler("member_join", ev) EXCEPT !.pc = "done"]
          ELSE Scan([StartHandler("member_join", ev) EXCEPT
                        !.roles_seen = member_roles, !.entered = TRUE,
                        !.iter_size = Len(automation_rules)], 1)]
    /\ UNCHANGED <<discord_client, automation_rules, automation_rule_counter,
                   member_roles, lastCall, schedVars, moderation>>

\* on_reaction_add / on_reaction_remove up to `await fetch_member`
OnReaction(slot, kind, ev) ==
    /\ Quiet
    /\ handlers[slot].pc = "idle"
    /\ handlers' = [handlers EXCEPT ![slot] =
          IF discord_client = "None" \/ ev.bot \/ ~ev.text
          THEN [StartHandler(kind, ev) EXCEPT !.pc = "done"]
          ELSE [StartHandler(kind, ev) EXCEPT !.pc = "fetch_member"]]
    /\ UNCHANGED <<discord_client, automation_rules, automation_rule_counter,
                   member_roles, lastCall, schedVars, moderation>>

OnReactionAdd(slot, ev) == OnReaction(slot, "reaction_add", ev)

OnReactionRemove(slot, ev) == OnReaction(slot, "reaction_remove", ev)

\* fetch_member returned: the member object carries the roles held now, and
\* the loop over the rule store begins
FetchMemberReturns(slot) ==
    /\ Quiet
    /\ handlers[slot].pc = "fetch_member"
    /\ handlers' = [handlers EXCEPT ![slot] =
          Scan([@ EXCEPT !.roles_seen = member_roles, !.entered = TRUE,
                         !.iter_size = Len(automation_rules)], 1)]
    /\ UNCHANGED <<discord_client, automation_rules, automation_rule_counter,
                   member_roles, lastCall, schedVars, moderation>>

\* fetch_member raised: `except: return`
FetchMemberRaises(slot) ==
    /\ Quiet
    /\ handlers[slot].pc = "fetch_member"
    /\ handlers' = [handlers EXCEPT ![slot] = [@ EXCEPT !.pc = "done"]]
    /\ UNCHANGED <<discord_client, automation_rules, automation_rule_counter,
                   member_roles, lastCall, schedVars, moderation>>

\* fetch_channel returned: the content is formatted and channel.send issued
FetchChannelReturns(slot) ==
    LET h == handlers[slot]
    IN  /\ Quiet
        /\ h.pc = "fetch_channel"
        /\ handlers' = [handlers EXCEPT ![slot] =
              [h EXCEPT !.pc = "send",
                        !.calls = Append(@,
                            [CallEntry(h, automation_rules[h.pos].id, "send",
                                       h.calls[Len(h.calls)].arg)
                                EXCEPT !.content =
                                    FormatContent(h, automation_rules[h.pos])])]]
        /\ UNCHANGED <<discord_client, automation_rules, automation_rule_counter,
                       member_roles, lastCall, schedVars, moderation>>

\* channel.send, add_roles or remove_roles returned
ActionReturns(slot) ==
    LET h == handlers[slot]
        role == h.calls[Len(h.calls)].arg
    IN  /\ Quiet
        /\ h.pc \in {"send", "add_roles", "remove_roles"}
        /\ member_roles' =
              CASE h.pc = "add_roles" -> member_roles \cup {role}
                [] h.pc = "remove_roles" -> member_roles \ {role}
                [] OTHER -> member_roles
        /\ handlers' = [handlers EXCEPT ![slot] = AfterReturn(h)]
        /\ UNCHANGED <<discord_client, automation_rules, automation_rule_counter,
                       lastCall, schedVars, moderation>>

\* an except clause that disables the rule whose action raised
ActionRaisesAutoDisable(slot) ==
    LET h == handlers[slot]
    IN  /\ Quiet
        /\ h.pc \in {"fetch_channel", "send", "add_roles", "remove_roles"}
        /\ handlers' = [handlers EXCEPT ![slot] = AfterRaise(Raise(h))]
        /\ automation_rules' =
              [automation_rules EXCEPT ![h.pos] = [@ EXCEPT !.enabled = "false"]]
        /\ UNCHANGED <<discord_client, automation_rule_counter,
                       member_roles, lastCall, schedVars, moderation>>

\* fetch_channel, channel.send, add_roles or remove_roles raised
ActionRaises(slot) ==
    LET h == handlers[slot]
    IN  /\ Quiet
        /\ h.pc \in {"fetch_channel", "send", "add_roles", "remove_roles"}
        /\ handlers' = [handlers EXCEPT ![slot] = AfterRaise(Raise(h))]
        /\ UNCHANGED <<discord_client, automation_rules, automation_rule_counter,
                       member_roles, lastCall, schedVars, moderation>>

\* the handler coroutine ended (returned, or died of an uncaught exception)
HandlerEnds(slot) ==
    /\ Quiet
    /\ handlers[slot].pc \in {"done", "crashed"}
    /\ handlers' = [handlers EXCEPT ![slot] = IdleHandler]
    /\ UNCHANGED <<discord_client, automation_rules, automation_rule_counter,
                   member_roles, lastCall, schedVars, moderation>>

\* the deleted messages on_message_delete is called with: text says the
\* channel is a TextChannel or a Thread, staff that the guild has a channel
\* whose name contains "staff" and "log"
DeletedMessages ==
    {[guild |-> "#1", name |-> "bob", emoji |-> "None", msg |-> "#10",
      bot |-> FALSE, text |-> text, staff |-> staff, content |-> content] :
        text \in BOOLEAN, staff \in BOOLEAN,
        content \in {<<"kw">>, <<"hello">>}}

\* on_message_delete(message) up to `await staff_logs_channel.send`: the rule
\* store is not read; the call is made for no rule (rule 0)
OnMessageDelete(slot, ev) ==
    /\ Quiet
    /\ handlers[slot].pc = "idle"
    /\ handlers' = [handlers EXCEPT ![slot] =
          IF discord_client = "None" \/ ~ev.text \/ ~ev.staff
          THEN [StartHandler("message_delete", ev) EXCEPT !.pc = "done"]
          ELSE [StartHandler("message_delete", ev) EXCEPT
                   !.pc = "staff_log",
                   !.calls = <<[CallEntry(StartHandler("message_delete", ev),
                                          0, "staff_log", "staff-logs")
                                   EXCEPT !.content = ev.content]>>]]
    /\ UNCHANGED <<discord_client, automation_rules, automation_rule_counter,
                   member_roles, lastCall, schedVars, moderation>>

\* staff_logs_channel.send returned, or raised and the warning was logged
StaffLogEnds(slot) ==
    /\ Quiet
    /\ handlers[slot].pc = "staff_log"
    /\ handlers' = [handlers EXCEPT ![slot] = [@ EXCEPT !.pc = "done"]]
    /\ UNCHANGED <<discord_client, automation_rules, automation_rule_counter,
                   member_roles, lastCall, schedVars, moderation>>

----------------------------------------------------------------------------
(* The rule engine.                                                        *)

\* the auto-moderation record before any auto_moderate_by_pattern call
NoRun ==
    [pc |-> "idle", args |-> "none", window |-> <<>>, action |-> "none",
     matches |-> <<>>, pos |-> 0, applied |-> 0, errors |-> <<>>,
     timed_out |-> {}, calls |-> <<>>, report |-> "none", error |-> "none"]

Init ==
    /\ discord_client = "None"
    /\ automation_rules = <<>>
    /\ automation_rule_counter = 0
    /\ handlers = [s \in HandlerSlots |-> IdleHandler]
    /\ member_roles = {}
    /\ lastCall = NoCall
    /\ scheduled_tasks = <<>>
    /\ scheduled_task_counter = 0
    /\ runners = <<>>
    /\ now = 0
    /\ moderation = NoRun

HandlerStep(slot) ==
    \/ \E ev \in JoinEvents : OnMemberJoin(slot, ev)
    \/ \E ev \in ReactionEvents : OnReactionAdd(slot, ev)
    \/ \E ev \in ReactionEvents : OnReactionRemove(slot, ev)
    \/ FetchMemberReturns(slot)
    \/ FetchMemberRaises(slot)
    \/ FetchChannelReturns(slot)
    \/ ActionReturns(slot)
    \/ ActionRaises(slot)
    \/ HandlerEnds(slot)

Next ==
    \/ CallReturns
    \/ OnReady
    \/ OnDisconnect
    \/ \E args \in RuleArgSpace : CreateAutomationRule(args)
    \/ HandlerStep("h1")

Spec == Init /\ [][Next]_vars

----------------------------------------------------------------------------
(* Two events in flight: event A is handled in slot h1 and event B, which  *)
(* the bot observes after A, in slot h2.  The handler of A is started      *)
(* first, and its record is kept until the handler of B has ended.         *)

TwoEventRuleArgs ==
    {[BaseArgs EXCEPT !.action_type = "send_message", !.action_payload = SendPayload],
     [BaseArgs EXCEPT !.action_type = "assign_role", !.action_payload = RolePayload],
     ReactionRole}

\* the steps of one handler for a member joining guild 1 or for the base
\* reaction
TwoEventStep(slot) ==
    \/ OnMemberJoin(slot, [guild |-> "#1", name |-> "bob", emoji |-> "None",
                           msg |-> "None", bot |-> FALSE, text |-> TRUE])
    \/ OnReactionAdd(slot, BaseReaction)
    \/ FetchMemberReturns(slot)
    \/ FetchMemberRaises(slot)
    \/ FetchChannelReturns(slot)
    \/ ActionReturns(slot)
    \/ ActionRaises(slot)
    \/ HandlerEnds(slot)

\* the handler of A starts and is discarded only while no handler of B is
\* there
FirstEventStep ==
    /\ \/ handlers["h2"].pc = "idle"
       \/ handlers["h1"].pc \notin {"idle", "done", "crashed"}
    /\ TwoEventStep("h1")

\* the handler of B starts once the handler of A has started
SecondEventStep ==
    /\ handlers["h1"].pc # "idle"
    /\ TwoEventStep("h2")

NextTwoEvents ==
    \/ CallReturns
    \/ OnReady
    \/ \E args \in TwoEventRuleArgs : CreateAutomationRule(args)
    \/ FirstEventStep
    \/ SecondEventStep

SpecTwoEvents == Init /\ [][NextTwoEvents]_vars

----------------------------------------------------------------------------
(* Message rules with templates: the contents a send_message rule is       *)
(* created with, and the events that fill them in.                         *)

Templates ==
    {NoContent,
     <<"Welcome ", "{username}", "!">>,
     <<"{user}", " ", "{emoji}">>,
     <<"{username}", " in ", "{server}">>}

TemplateRuleArgs ==
    {[base EXCEPT !.action_type = "send_message",
                  !.action_payload = [SendPayload EXCEPT !.content = content]] :
        base \in {BaseArgs, ReactionBase}, content \in Templates}

TemplateEvents ==
    {[BaseReaction EXCEPT !.name = n, !.guild = g] :
        n \in {"bob", "eve"}, g \in Guilds}

TemplateStep(slot) ==
    \/ \E ev \in TemplateEvents :
          OnMemberJoin(slot, [ev EXCEPT !.emoji = "None", !.msg = "None"])
    \/ \E ev \in TemplateEvents : OnReactionAdd(slot, ev)
    \/ FetchMemberReturns(slot)
    \/ FetchMemberRaises(slot)
    \/ FetchChannelReturns(slot)
    \/ ActionReturns(slot)
    \/ ActionRaises(slot)
    \/ HandlerEnds(slot)

NextTemplates ==
    \/ CallReturns
    \/ OnReady
    \/ \E args \in TemplateRuleArgs : CreateAutomationRule(args)
    \/ TemplateStep("h1")

SpecTemplates == Init /\ [][NextTemplates]_vars

----------------------------------------------------------------------------
(* Keyword rules: rules with trigger_type message_contains, the trigger    *)
(* the schema names beside member_join and reaction_added, and every       *)
(* handler the bot registers.                                              *)

KeywordRuleArgs ==
    KeywordArgs
    \cup {[BaseArgs EXCEPT !.trigger_type = "message_contains",
                           !.trigger_value = "kw",
                           !.action_type = "assign_role",
                           !.action_payload = RolePayload],
          [BaseArgs EXCEPT !.trigger_type = "message_contains",
                           !.trigger_value = "kw",
                           !.action_type = "send_message",
                           !.action_payload = SendPayload],
          ReactionRole,
          [BaseArgs EXCEPT !.action_type = "send_message",
                           !.action_payload = SendPayload]}

KeywordStep(slot) ==
    \/ \E ev \in JoinEvents : OnMemberJoin(slot, ev)
    \/ \E ev \in ReactionEvents : OnReactionAdd(slot, ev)
    \/ \E ev \in ReactionEvents : OnReactionRemove(slot, ev)
    \/ \E ev \in DeletedMessages : OnMessageDelete(slot, ev)
    \/ FetchMemberReturns(slot)
    \/ FetchMemberRaises(slot)
    \/ FetchChannelReturns(slot)
    \/ ActionReturns(slot)
    \/ ActionRaises(slot)
    \/ StaffLogEnds(slot)
    \/ HandlerEnds(slot)

NextKeyword ==
    \/ CallReturns
    \/ OnReady
    \/ \E args \in KeywordRuleArgs : CreateAutomationRule(args)
    \/ KeywordStep("h1")

SpecKeyword == Init /\ [][NextKeyword]_vars

----------------------------------------------------------------------------
(* The standalone runner, railway_bot.py, beside the server.  Its handlers *)
(* are kept in slot h2 and the server's in slot h1; both read the rule     *)
(* store of the model.  The runner has no discord_client: its handlers     *)
(* test `if not bot`, and bot, a commands.Bot, is never falsy.  Here the   *)
(* client, once ready, stays ready, so that the try blocks of the two      *)
(* files read alike.                                                       *)

\* railway_bot.on_member_join(member): the loop header reads
\* server.automation_rules, and the module binds no name `server`: NameError,
\* outside every try block
RailwayBotOnMemberJoin(slot, ev) ==
    /\ Quiet
    /\ handlers[slot].pc = "idle"
    /\ handlers' = [handlers EXCEPT ![slot] =
          [StartHandler("member_join", ev) EXCEPT
              !.pc = "crashed", !.error = "NameError",
              !.roles_seen = member_roles,
              !.iter_size = Len(automation_rules)]]
    /\ UNCHANGED <<discord_client, automation_rules, automation_rule_counter,
                   member_roles, lastCall, schedVars, moderation>>

\* railway_bot.on_reaction_add / on_reaction_remove up to `await
\* fetch_member`; from there on the body is the server's, line for line
RailwayBotOnReaction(slot, kind, ev) ==
    /\ Quiet
    /\ handlers[slot].pc = "idle"
    /\ handlers' = [handlers EXCEPT ![slot] =
          IF ev.bot \/ ~ev.text
          THEN [StartHandler(kind, ev) EXCEPT !.pc = "done"]
          ELSE [StartHandler(kind, ev) EXCEPT !.pc = "fetch_member"]]
    /\ UNCHANGED <<discord_client, automation_rules, automation_rule_counter,
                   member_roles, lastCall, schedVars, moderation>>

RunnerRuleArgs ==
    {[BaseArgs EXCEPT !.action_type = "assign_role", !.action_payload = RolePayload],
     ReactionRole}

RunnerJoinEvents == {ev \in JoinEvents : ev.guild = "#1"}

RunnerReactionEvents == {BaseReaction, [BaseReaction EXCEPT !.bot = TRUE]}

\* the steps shared by the handlers of both files
SharedStep(slot) ==
    \/ FetchMemberReturns(slot)
    \/ FetchMemberRaises(slot)
    \/ ActionReturns(slot)
    \/ ActionRaises(slot)
    \/ HandlerEnds(slot)

ServerStep(slot) ==
    \/ \E ev \in RunnerJoinEvents : OnMemberJoin(slot, ev)
    \/ \E ev \in RunnerReactionEvents : OnReactionAdd(slot, ev)
    \/ \E ev \in RunnerReactionEvents : OnReactionRemove(slot, ev)
    \/ SharedStep(slot)

RailwayBotStep(slot) ==
    \/ \E ev \in RunnerJoinEvents : RailwayBotOnMemberJoin(slot, ev)
    \/ \E ev \in RunnerReactionEvents : RailwayBotOnReaction(slot, "reaction_add", ev)
    \/ \E ev \in RunnerReactionEvents : RailwayBotOnReaction(slot, "reaction_remove", ev)
    \/ SharedStep(slot)

NextRunner ==
    \/ CallReturns
    \/ OnReady
    \/ \E args \in RunnerRuleArgs : CreateAutomationRule(args)
    \/ ServerStep("h1")
    \/ RailwayBotStep("h2")

SpecRunner == Init /\ [][NextRunner]_vars

----------------------------------------------------------------------------
(* Placeholders inside inserted values.                                    *)

\* members whose name is itself the text of a placeholder
NestedEvents ==
    {[BaseReaction EXCEPT !.name = n] : n \in {"bob", "{server}", "{emoji}"}}

NestedStep(slot) ==
    \/ \E ev \in NestedEvents :
          OnMemberJoin(slot, [ev EXCEPT !.emoji = "None", !.msg = "None"])
    \/ \E ev \in NestedEvents : OnReactionAdd(slot, ev)
    \/ FetchMemberReturns(slot)
    \/ FetchMemberRaises(slot)
    \/ FetchChannelReturns(slot)
    \/ ActionReturns(slot)
    \/ ActionRaises(slot)
    \/ HandlerEnds(slot)

NextNested ==
    \/ CallReturns
    \/ OnReady
    \/ \E args \in TemplateRuleArgs : CreateAutomationRule(args)
    \/ NestedStep("h1")

SpecNested == Init /\ [][NextNested]_vars

----------------------------------------------------------------------------
(* The deferred task scheduler: schedule_task, send_scheduled_message and  *)
(* run_scheduled_task.                                                     *)

\* a run_at or delay_seconds argument: absent, a value that does not parse,
\* the empty string, or a number (run_at: a time stamp naming a point in
\* time, truthy whichever point it names; delay_seconds: a number of time
\* units)
Absent == [k |-> "absent", t |-> 0]
Unparseable == [k |-> "bogus", t |-> 0]
EmptyString == [k |-> "empty", t |-> 0]
Num(t) == [k |-> "num", t |-> t]

\* the ids next_scheduled_task_id can hand out within the bound
TaskIds == 1..MaxTaskCounter

AllowedTaskTypes == {"send_message", "bulk_add_roles", "bulk_modify_members"}

\* a task_type outside the allow-list
TaskTypeAllowedAny(task_type) == TRUE

\* `if task_type not in allowed: raise ValueError`
TaskTypeAllowed(task_type) == task_type \in AllowedTaskTypes

\* parse_timestamp on a truthy value: the time, or -1 when it raises
ParseTimestamp(v) == IF v.k = "num" THEN v.t ELSE -1

\* resolve_run_at(args): [error, run_at]
ResolveRunAt(args) ==
    IF args.run_at.k \in {"num", "bogus"}
    THEN IF ParseTimestamp(args.run_at) < 0
         THEN [error |-> "ValueError", run_at |-> 0]
         ELSE [error |-> "none", run_at |-> ParseTimestamp(args.run_at)]
    ELSE IF args.delay_seconds.k # "absent"
    THEN IF args.delay_seconds.k = "num"
         THEN [error |-> "none", run_at |-> now + args.delay_seconds.t]
         ELSE [error |-> "ValueError", run_at |-> 0]
    ELSE [error |-> "ValueError", run_at |-> 0]

\* the timings a call is made with: every way resolve_run_at can go
Timings ==
    {[run_at |-> Absent, delay_seconds |-> Absent],
     [run_at |-> EmptyString, delay_seconds |-> Absent],
     [run_at |-> Unparseable, delay_seconds |-> Num(0)],
     [run_at |-> Absent, delay_seconds |-> Unparseable],
     [run_at |-> EmptyString, delay_seconds |-> Num(1)]}
    \cup {[run_at |-> Num(t), delay_seconds |-> Absent] : t \in {0, MaxClock}}
    \cup {[run_at |-> Absent, delay_seconds |-> Num(d)] : d \in {-1, 0, 1}}

BaseTiming == [run_at |-> Absent, delay_seconds |-> Num(0)]

\* schedule_task arguments: every timing for a send_message task, and every
\* task type (one outside the allow-list, one missing) with no delay
ScheduleArgSpace ==
    {[task_type |-> "send_message", payload |-> "ok", run_at |-> tm.run_at,
      delay_seconds |-> tm.delay_seconds] : tm \in Timings}
    \cup {[task_type |-> tt, payload |-> "ok", run_at |-> BaseTiming.run_at,
           delay_seconds |-> BaseTiming.delay_seconds] :
            tt \in AllowedTaskTypes \cup {"ban_user", "absent"}}
    \cup {[task_type |-> "send_message", payload |-> "bad",
           run_at |-> BaseTiming.run_at,
           delay_seconds |-> BaseTiming.delay_seconds]}

\* send_scheduled_message arguments
MessageArgSpace ==
    {[channel_id |-> "5", content |-> "hi", run_at |-> tm.run_at,
      delay_seconds |-> tm.delay_seconds] :
        tm \in {BaseTiming, [run_at |-> Absent, delay_seconds |-> Absent],
                [run_at |-> Num(0), delay_seconds |-> Num(1)],
                [run_at |-> Num(MaxClock), delay_seconds |-> Absent]}}
    \cup {[channel_id |-> "absent", content |-> "hi",
           run_at |-> BaseTiming.run_at,
           delay_seconds |-> BaseTiming.delay_seconds],
          [channel_id |-> "5", content |-> "absent",
           run_at |-> BaseTiming.run_at,
           delay_seconds |-> BaseTiming.delay_seconds]}

\* how the caller asked for the time, as the properties read it: a run_at
\* before the current time, a run_at equal to it, a delay_seconds of 0, or
\* anything else
TimingOf(args) ==
    CASE args.run_at.k = "num" ->
            IF args.run_at.t < now THEN "run_at_past"
            ELSE IF args.run_at.t = now THEN "run_at_now" ELSE "other"
      [] args.run_at.k = "bogus" -> "other"
      [] args.delay_seconds.k = "num" /\ args.delay_seconds.t = 0 -> "delay_zero"
      [] OTHER -> "other"

\* the record a call stores for a new task (created_at is left out)
NewTask(task_id, task_type, run_at) ==
    [id |-> task_id, task_type |-> task_type, run_at |-> run_at,
     status |-> "scheduled", result |-> "None", error |-> "None"]

\* the coroutine asyncio.create_task starts for a new task, with the closure
\* of task_callable.  writes: the statuses it assigned to the task entry;
\* invoked: how often task_callable was awaited; external: how often that
\* reached the platform; cancelled: the record was removed before the timer
\* fired
NewRunner(task_type, payload, run_at, timing) ==
    [pc |-> "created", task_type |-> task_type, payload |-> payload,
     run_at |-> run_at, timing |-> timing, delay |-> 0, slept |-> FALSE,
     wake |-> 0, writes |-> <<>>, invoked |-> 0, external |-> 0,
     cancelled |-> FALSE, ended |-> "none", client_at_fire |-> "unfired"]

\* what a scheduling call that raised leaves behind
RejectSchedule(tool, args, error) ==
    /\ lastCall' = CallRecord(tool, args, error)
    /\ UNCHANGED <<scheduled_tasks, scheduled_task_counter, runners>>

\* an id generator that counts on the rule counter
NextScheduledTaskIdShared == automation_rule_counter + 1

\* next_scheduled_task_id: the counter after its increment, which is the
\* id handed out
NextScheduledTaskId == scheduled_task_counter + 1

\* next_scheduled_task_id, the store into the task map and create_task
AcceptSchedule(tool, args, task_type, payload, run_at) ==
    LET task_id == NextScheduledTaskId
    IN  /\ scheduled_task_counter' = task_id
        /\ scheduled_tasks' =
              (task_id :> NewTask(task_id, task_type, run_at)) @@ scheduled_tasks
        /\ runners' =
              (task_id :> NewRunner(task_type, payload, run_at, TimingOf(args)))
              @@ runners
        /\ lastCall' = CallRecord(tool, args, "none")

\* call_tool("schedule_task", args)
ScheduleTask(args) ==
    /\ Quiet
    /\ scheduled_task_counter < MaxTaskCounter
    /\ IF discord_client = "None"
       THEN RejectSchedule("schedule_task", args, "RuntimeError")
       ELSE IF args.task_type = "absent"
       THEN RejectSchedule("schedule_task", args, "KeyError")
       ELSE IF ~TaskTypeAllowed(args.task_type)
       THEN RejectSchedule("schedule_task", args, "ValueError")
       ELSE IF ResolveRunAt(args).error # "none"
       THEN RejectSchedule("schedule_task", args, ResolveRunAt(args).error)
       ELSE AcceptSchedule("schedule_task", args, args.task_type, args.payload,
                           ResolveRunAt(args).run_at)
    /\ UNCHANGED <<engineVars, now, moderation>>

\* call_tool("send_scheduled_message", args)
SendScheduledMessage(args) ==
    /\ Quiet
    /\ scheduled_task_counter < MaxTaskCounter
    /\ IF discord_client = "None"
       THEN RejectSchedule("send_scheduled_message", args, "RuntimeError")
       ELSE IF ResolveRunAt(args).error # "none"
       THEN RejectSchedule("send_scheduled_message", args, ResolveRunAt(args).error)
       ELSE IF args.channel_id = "absent" \/ args.content = "absent"
       THEN RejectSchedule("send_scheduled_message", args, "KeyError")
       ELSE AcceptSchedule("send_scheduled_message", args, "send_message", "ok",
                           ResolveRunAt(args).run_at)
    /\ UNCHANGED <<engineVars, now, moderation>>

\* a sleep without the floor: a negative delay
DelayUnfloored(run_at) == run_at - now

\* `delay = max(0, (run_at - now).total_seconds())`
Delay(run_at) == IF run_at - now > 0 THEN run_at - now ELSE 0

\* a lookup that never misses
TaskPresentAlways(task_id) == TRUE

\* `task_entry = scheduled_tasks.get(task_id)`; `if not task_entry: return`
TaskPresent(task_id) == task_id \in DOMAIN scheduled_tasks

\* an assignment to task_entry["status"] (with result or error): the entry
\* is the dict the map holds under the task's id
WriteStatus(task_id, status, result, error) ==
    scheduled_tasks' =
        IF task_id \in DOMAIN scheduled_tasks
        THEN [scheduled_tasks EXCEPT ![task_id] =
                 [@ EXCEPT !.status = status, !.result = result, !.error = error]]
        ELSE scheduled_tasks

\* the except clause after the entry was already marked completed
RecordReturnThenFail(r) ==
    [r EXCEPT !.pc = "finished", !.writes = Append(Append(@, "completed"), "failed")]

\* task_callable returned: `task_entry["status"] = "completed"` and the
\* result text
RecordReturn(r) == [r EXCEPT !.pc = "finished", !.writes = Append(@, "completed")]

\* an except clause that starts the coroutine over after a failure
RecordRaiseThenRetry(r) ==
    [r EXCEPT !.pc = "created", !.writes = Append(@, "failed")]

\* an except clause that swallows the exception and marks the entry done
RecordRaiseSwallowed(r) ==
    [r EXCEPT !.pc = "finished", !.writes = Append(@, "completed")]

\* an exception that leaves the coroutine without the entry being marked
RecordRaiseUnrecorded(r) == [r EXCEPT !.pc = "finished"]

\* task_callable raised: `task_entry["status"] = "failed"` and the error
RecordRaise(r) == [r EXCEPT !.pc = "finished", !.writes = Append(@, "failed")]

\* a task_callable that reaches the tool body without the wrapper's test
RequireDiscordClientSkipped == TRUE

\* require_discord_client as task_callable meets it: `if not discord_client:
\* raise RuntimeError("Discord client not ready")`
RequireDiscordClient == discord_client # "None"

\* what the except clause leaves in the entry: the status it assigned and,
\* with "failed", the text of the exception
WriteRaise(task_id, r, exc) ==
    WriteStatus(task_id, r.writes[Len(r.writes)], "None",
                IF r.writes[Len(r.writes)] = "failed" THEN exc ELSE "None")

\* run_scheduled_task from the lookup of the entry to the await inside
\* task_callable: the entry is marked running and call_tool is entered;
\* require_discord_client, or a payload call_tool cannot read, raises at once
Fire(task_id, r0) ==
    LET r == r0
    IN  IF ~TaskPresent(task_id)
        THEN /\ runners' = [runners EXCEPT ![task_id] = [r EXCEPT !.pc = "dropped"]]
             /\ UNCHANGED scheduled_tasks
        ELSE LET running == [r EXCEPT !.writes = Append(@, "running"),
                                      !.invoked = @ + 1,
                                      !.client_at_fire = discord_client]
             IN  IF ~RequireDiscordClient
                 THEN /\ runners' = [runners EXCEPT ![task_id] =
                            [RecordRaise(running) EXCEPT !.ended = "raised"]]
                      /\ WriteRaise(task_id, RecordRaise(running), "RuntimeError")
                 ELSE IF r.payload = "bad"
                 THEN /\ runners' = [runners EXCEPT ![task_id] =
                            [RecordRaise(running) EXCEPT !.ended = "raised"]]
                      /\ WriteRaise(task_id, RecordRaise(running), "KeyError")
                 ELSE /\ runners' = [runners EXCEPT ![task_id] =
                            [running EXCEPT !.pc = "invoking", !.external = @ + 1]]
                      /\ WriteStatus(task_id, "running", "None", "None")

\* run_scheduled_task starts: the delay is computed and, when it is not
\* zero, slept
RunnerStarts(task_id) ==
    LET r == [runners[task_id] EXCEPT !.delay = Delay(runners[task_id].run_at)]
    IN  /\ Quiet
        /\ task_id \in DOMAIN runners
        /\ runners[task_id].pc = "created"
        /\ IF r.delay # 0
           THEN /\ runners' = [runners EXCEPT ![task_id] =
                      [r EXCEPT !.pc = "sleeping", !.slept = TRUE,
                                !.wake = now + r.delay]]
                /\ UNCHANGED scheduled_tasks
           ELSE Fire(task_id, r)
        /\ UNCHANGED <<engineVars, lastCall, scheduled_task_counter, now, moderation>>

\* asyncio.sleep(delay) is over
TimerFires(task_id) ==
    /\ Quiet
    /\ task_id \in DOMAIN runners
    /\ runners[task_id].pc = "sleeping"
    /\ now >= runners[task_id].wake
    /\ Fire(task_id, runners[task_id])
    /\ UNCHANGED <<engineVars, lastCall, scheduled_task_counter, now, moderation>>

\* the tool call inside task_callable returned its text
TaskReturns(task_id) ==
    /\ Quiet
    /\ task_id \in DOMAIN runners
    /\ runners[task_id].pc = "invoking"
    /\ runners' = [runners EXCEPT ![task_id] =
                       [RecordReturn(@) EXCEPT !.ended = "returned"]]
    /\ WriteStatus(task_id, runners'[task_id].writes[Len(runners'[task_id].writes)],
                   IF runners'[task_id].writes[Len(runners'[task_id].writes)] = "completed"
                   THEN "text" ELSE "None",
                   IF runners'[task_id].writes[Len(runners'[task_id].writes)] = "completed"
                   THEN "None" ELSE "exception")
    /\ UNCHANGED <<engineVars, lastCall, scheduled_task_counter, now, moderation>>

\* the tool call inside task_callable raised
TaskRaises(task_id) ==
    /\ Quiet
    /\ task_id \in DOMAIN runners
    /\ runners[task_id].pc = "invoking"
    /\ runners' = [runners EXCEPT ![task_id] =
                       [RecordRaise(@) EXCEPT !.ended = "raised"]]
    /\ WriteRaise(task_id, RecordRaise(runners[task_id]), "exception")
    /\ UNCHANGED <<engineVars, lastCall, scheduled_task_counter, now, moderation>>

\* time passes
Tick ==
    /\ Quiet
    /\ now < MaxClock
    /\ now' = now + 1
    /\ UNCHANGED <<engineVars, lastCall, scheduled_tasks, scheduled_task_counter,
                   runners, moderation>>

RunnerStep(task_id) ==
    \/ RunnerStarts(task_id)
    \/ TimerFires(task_id)
    \/ TaskReturns(task_id)
    \/ TaskRaises(task_id)

NextSched ==
    \/ CallReturns
    \/ OnReady
    \/ OnDisconnect
    \/ \E args \in ScheduleArgSpace : ScheduleTask(args)
    \/ \E args \in MessageArgSpace : SendScheduledMessage(args)
    \/ \E task_id \in TaskIds : RunnerStep(task_id)
    \/ Tick

SpecSched == Init /\ [][NextSched]_vars

\* the record of a task that has not run yet is deleted from the task map
\* (cancellation by deletion; nothing in the source deletes one)
RemoveTask(task_id) ==
    /\ Quiet
    /\ task_id \in DOMAIN scheduled_tasks
    /\ scheduled_tasks[task_id].status = "scheduled"
    /\ scheduled_tasks' =
          [k \in DOMAIN scheduled_tasks \ {task_id} |-> scheduled_tasks[k]]
    /\ runners' = [runners EXCEPT ![task_id] =
          [@ EXCEPT !.cancelled = TRUE]]
    /\ UNCHANGED <<engineVars, lastCall, scheduled_task_counter, now, moderation>>

NextCancel ==
    \/ CallReturns
    \/ OnReady
    \/ \E args \in MessageArgSpace : SendScheduledMessage(args)
    \/ \E task_id \in TaskIds : RunnerStep(task_id)
    \/ \E task_id \in TaskIds : RemoveTask(task_id)
    \/ Tick

SpecCancel == Init /\ [][NextCancel]_vars

----------------------------------------------------------------------------
(* The scheduler under fair scheduling.  The event loop keeps its ready    *)
(* coroutines in a queue: one that is ready (a created one, one whose      *)
(* sleep is over, one whose awaited call has ended) runs after the ones    *)
(* ahead of it, however many tool calls arrive meanwhile, hence the strong *)
(* fairness of the runner's steps and of the clock; a tool call that has   *)
(* been entered returns to its caller; the awaited tool call of a task     *)
(* eventually returns or raises.                                           *)

\* time passes for as long as a coroutine is asleep in asyncio.sleep (the
\* clock is read by the scheduling calls and the sleepers only)
TimePasses ==
    /\ Quiet
    /\ \E task_id \in DOMAIN runners :
          /\ runners[task_id].pc = "sleeping"
          /\ runners[task_id].wake > now
    /\ now' = now + 1
    /\ UNCHANGED <<engineVars, lastCall, scheduled_tasks, scheduled_task_counter,
                   runners, moderation>>

\* the scheduling calls of the fair runs: a task due at once, one due after
\* a sleep, one whose payload call_tool cannot read, and a rejected call
LiveTaskArgs ==
    {args \in ScheduleArgSpace :
        /\ args.task_type \in {"send_message", "ban_user"}
        /\ args.run_at = Absent
        /\ args.delay_seconds \in {Num(0), Num(1)}}

LiveMessageArgs ==
    {args \in MessageArgSpace :
        /\ args.run_at = Absent
        /\ args.content # "absent"}

NextLive ==
    \/ CallReturns
    \/ OnReady
    \/ OnDisconnect
    \/ \E args \in LiveTaskArgs : ScheduleTask(args)
    \/ \E args \in LiveMessageArgs : SendScheduledMessage(args)
    \/ \E task_id \in TaskIds : RunnerStep(task_id)
    \/ TimePasses

Fairness ==
    /\ WF_<<lastCall.tool>>(CallReturns)
    /\ SF_now(TimePasses)
    /\ \A task_id \in TaskIds : SF_runners(RunnerStep(task_id))

SpecLive == Init /\ [][NextLive]_vars /\ Fairness

----------------------------------------------------------------------------
(* Rule creation and task scheduling side by side: the calls a client has  *)
(* outstanding at the same time run one after another on the event loop,   *)
(* in any order (none of the three awaits before it returns).              *)

ConcurrentRuleArgs ==
    {BaseArgs, ReactionRole, [BaseArgs EXCEPT !.name = "absent"]}

ConcurrentTaskArgs ==
    {args \in ScheduleArgSpace :
        /\ args.run_at = BaseTiming.run_at
        /\ args.delay_seconds = BaseTiming.delay_seconds}

NextIds ==
    \/ CallReturns
    \/ OnReady
    \/ \E args \in ConcurrentRuleArgs : CreateAutomationRule(args)
    \/ \E args \in ConcurrentTaskArgs : ScheduleTask(args)
    \/ \E args \in MessageArgSpace : SendScheduledMessage(args)

SpecIds == Init /\ [][NextIds]_vars

----------------------------------------------------------------------------
(* Rule creation with arbitrary strings: the input schema types            *)
(* trigger_type and action_type as strings and names the supported values  *)
(* in their descriptions only.                                             *)

\* "Trigger type (member_join, message_contains, reaction_added)"
SupportedTriggers == {"member_join", "reaction_added", "message_contains"}

\* "Action type (assign_role, send_message, log)"
SupportedActions == {"send_message", "assign_role", "log"}

\* calls with every supported trigger and action, with a trigger and an
\* action no handler knows, and with a required key left out
ArbitraryRuleArgs ==
    {[BaseArgs EXCEPT !.trigger_type = trigger, !.action_type = action] :
        trigger \in SupportedTriggers \cup {"message_edit"},
        action \in SupportedActions \cup {"ban"}}
    \cup MalformedArgs

NextRules ==
    \/ CallReturns
    \/ OnReady
    \/ OnDisconnect
    \/ \E args \in ArbitraryRuleArgs : CreateAutomationRule(args)

SpecRules == Init /\ [][NextRules]_vars

----------------------------------------------------------------------------
(* Auto-moderation: call_tool, name == "auto_moderate_by_pattern".         *)
(* moderation is the frame of the latest call: pc is "idle", "awaiting"    *)
(* (suspended in msg.delete or msg.author.timeout), "returned" or          *)
(* "raised"; matches lists the matched message ids in window order; pos    *)
(* is the match the apply loop is at; calls lists the delete and timeout   *)
(* calls issued to the platform, in order.                                 *)

Authors == {"u1", "u2", "u3"}

\* isinstance(msg.author, discord.Member): the author of a message whose
\* sender has left the guild is a discord.User
IsMember(author) == author \in {"u1", "u2"}

\* message content is a sequence of characters: "a" is a lower-case
\* letter, "A" an upper-case letter, " " white space, and "http://" stands
\* for the seven characters of one link prefix; mentions counts user and
\* role mentions together
MessageKinds ==
    { [content |-> <<"A", "A">>, mentions |-> 0],
      [content |-> <<" ", "a", "a">>, mentions |-> 0],
      [content |-> <<"http://", "http://">>, mentions |-> 0],
      [content |-> <<" ">>, mentions |-> 2] }

Messages ==
    { [author |-> a, content |-> k.content, mentions |-> k.mentions] :
          a \in Authors, k \in MessageKinds }

\* what channel.history(limit) returns; a message's id is its index
Windows == UNION { [1..n -> Messages] : n \in 0..MaxWindow }

RECURSIVE LStrip(_)
LStrip(content) ==
    IF content # <<>> /\ Head(content) = " " THEN LStrip(Tail(content))
    ELSE content

RECURSIVE RStrip(_)
RStrip(content) ==
    IF content # <<>> /\ content[Len(content)] = " "
    THEN RStrip(SubSeq(content, 1, Len(content) - 1))
    ELSE content

\* str.strip()
Strip(content) == RStrip(LStrip(content))

\* str.lower()
Lower(content) ==
    [i \in 1..Len(content) |-> IF content[i] = "A" THEN "a" ELSE content[i]]

RECURSIVE Sum(_)
Sum(ns) == IF ns = <<>> THEN 0 ELSE Head(ns) + Sum(Tail(ns))

\* len(content)
Length(content) ==
    Sum([i \in 1..Len(content) |-> IF content[i] = "http://" THEN 7 ELSE 1])

\* len([ch for ch in content if ch.isalpha()])
Letters(content) ==
    Sum([i \in 1..Len(content) |->
            CASE content[i] = "http://" -> 4
              [] content[i] = " " -> 0
              [] OTHER -> 1])

\* sum(1 for ch in letters if ch.isupper())
Uppers(content) ==
    Sum([i \in 1..Len(content) |-> IF content[i] = "A" THEN 1 ELSE 0])

\* len(re.findall(r"https?://", content))
Links(content) ==
    Sum([i \in 1..Len(content) |-> IF content[i] = "http://" THEN 1 ELSE 0])

\* .strip().lower() of a pattern_type or action argument
Normalised(v) ==
    CASE v = " REPORT " -> "report"
      [] v = " Link_Spam " -> "link_spam"
      [] OTHER -> v

\* int(arguments.get(key, default)) of a threshold argument
Threshold(arg, default) == IF arg.k = "absent" THEN default ELSE arg.t

\* thresholds left to their defaults, and thresholds a short window can
\* reach; caps_ratio_threshold is in tenths
DefaultThresholds ==
    [repeat_threshold |-> Absent, link_threshold |-> Absent,
     mention_threshold |-> Absent, caps_ratio_threshold |-> Absent,
     min_length |-> Absent]

LowThresholds ==
    [repeat_threshold |-> Num(2), link_threshold |-> Num(2),
     mention_threshold |-> Num(2), caps_ratio_threshold |-> Num(5),
     min_length |-> Num(2)]

PatternTypes ==
    {"repeated_message", " Link_Spam ", "mention_spam", "caps_spam", "raid"}

\* action, with timeout_minutes where it is given
ActionArgs ==
    { [action |-> a, timeout_minutes |-> Absent] :
          a \in {"absent", "delete", "timeout", "report", " REPORT ", "ban"} }
    \cup { [action |-> "timeout", timeout_minutes |-> Num(10)] }

ModerationArgSpace ==
    { [channel |-> "text", pattern_type |-> p, action |-> a.action,
       timeout_minutes |-> a.timeout_minutes, dry_run |-> d,
       thresholds |-> t] :
          p \in PatternTypes, a \in ActionArgs,
          d \in {"true", "false", "absent"},
          t \in {DefaultThresholds, LowThresholds} }
    \cup { [channel |-> "category", pattern_type |-> "caps_spam",
            action |-> "delete", timeout_minutes |-> Absent,
            dry_run |-> "false", thresholds |-> LowThresholds] }

\* counts[(msg.author.id, content)] of the repeated_message detector
Counts(window, author, content) ==
    Cardinality({ i \in 1..Len(window) :
                     /\ window[i].author = author
                     /\ Lower(Strip(window[i].content)) = content })

RepeatedMessage(args, window, i) ==
    LET content == Lower(Strip(window[i].content))
    IN  /\ content # <<>>
        /\ Counts(window, window[i].author, content)
              >= Threshold(args.thresholds.repeat_threshold, 3)

LinkSpam(args, window, i) ==
    Links(window[i].content) >= Threshold(args.thresholds.link_threshold, 3)

MentionSpam(args, window, i) ==
    window[i].mentions >= Threshold(args.thresholds.mention_threshold, 5)

CapsSpam(args, window, i) ==
    LET content == window[i].content
    IN  /\ Letters(content) > 0
        /\ Uppers(content) * 10
              >= Threshold(args.thresholds.caps_ratio_threshold, 7)
                    * Letters(content)
        /\ Length(content) >= Threshold(args.thresholds.min_length, 15)

KnownPattern(pattern_type) ==
    pattern_type \in
        {"repeated_message", "link_spam", "mention_spam", "caps_spam"}

\* a scan that only looks at the window in a live run
MatchesOnlyWhenLive(args, window) ==
    IF args.dry_run = "false" THEN [i \in 1..Len(window) |-> i] ELSE <<>>

\* the matches list: the flagged messages, in window order
Matches(args, window) ==
    LET pattern_type == Normalised(args.pattern_type)
        Flagged(i) ==
            CASE pattern_type = "repeated_message" ->
                     RepeatedMessage(args, window, i)
              [] pattern_type = "link_spam" -> LinkSpam(args, window, i)
              [] pattern_type = "mention_spam" -> MentionSpam(args, window, i)
              [] pattern_type = "caps_spam" -> CapsSpam(args, window, i)
              [] OTHER -> FALSE
    IN  SelectSeq([i \in 1..Len(window) |-> i], Flagged)

\* if action != "report" and not dry_run, without the dry_run test
LiveIgnoringDryRun(args, action) == action # "report"

\* if action != "report" and not dry_run
Live(args, action) ==
    action # "report" /\ ~Truthy(Get(args.dry_run, "true"))

\* the result lines and the return
Report(m) ==
    [m EXCEPT !.pc = "returned",
              !.report = [matched |-> Len(m.matches), action |-> m.action,
                          dry_run |-> Get(m.args.dry_run, "true"),
                          applied |-> m.applied]]

\* the apply loop from match pos on, up to the next platform call or to
\* the return
RECURSIVE Apply(_)
Apply(m) ==
    IF m.pos > Len(m.matches) THEN Report(m)
    ELSE
      LET id == m.matches[m.pos]
          author == m.window[id].author
      IN  IF m.action = "delete"
          THEN [m EXCEPT !.pc = "awaiting",
                         !.calls = Append(@, [op |-> "delete", msg |-> id,
                                              author |-> author,
                                              outcome |-> "pending"])]
          ELSE IF m.args.timeout_minutes.k = "absent"
          THEN Apply([m EXCEPT !.errors = Append(@, id), !.pos = @ + 1])
          ELSE IF IsMember(author) /\ author \notin m.timed_out
          THEN [m EXCEPT !.pc = "awaiting",
                         !.calls = Append(@, [op |-> "timeout", msg |-> id,
                                              author |-> author,
                                              outcome |-> "pending"])]
          ELSE Apply([m EXCEPT !.pos = @ + 1])

\* the frame of a call once it has run to its first platform call, its
\* return or its exception
AutoModerateByPattern(args, window) ==
    LET m == [NoRun EXCEPT !.args = args, !.window = window]
        action == Normalised(Get(args.action, "report"))
    IN  IF discord_client = "None"
        THEN [m EXCEPT !.pc = "raised", !.error = "RuntimeError"]
        ELSE IF args.channel # "text"
        THEN [m EXCEPT !.pc = "returned", !.report = "no history"]
        ELSE IF ~KnownPattern(Normalised(args.pattern_type))
        THEN [m EXCEPT !.pc = "raised", !.error = "ValueError"]
        ELSE IF action \notin {"delete", "timeout", "report"}
        THEN [m EXCEPT !.pc = "raised", !.error = "ValueError",
                       !.matches = Matches(args, window)]
        ELSE LET scanned == [m EXCEPT !.action = action, !.pos = 1,
                                      !.matches = Matches(args, window)]
             IN  IF Live(args, action) THEN Apply(scanned)
                 ELSE Report(scanned)

\* a client calls the tool
CallAutoModerate ==
    /\ Quiet
    /\ moderation.pc = "idle"
    /\ \E args \in ModerationArgSpace, window \in Windows :
          moderation' = AutoModerateByPattern(args, window)
    /\ UNCHANGED <<engineVars, lastCall, schedVars>>

\* msg.delete or msg.author.timeout returns
PlatformCallReturns ==
    /\ Quiet
    /\ moderation.pc = "awaiting"
    /\ LET m == moderation
           author == m.window[m.matches[m.pos]].author
       IN  moderation' =
             Apply([m EXCEPT !.pc = "applying",
                             !.calls[Len(m.calls)].outcome = "returned",
                             !.applied = @ + 1,
                             !.timed_out = IF m.action = "timeout"
                                           THEN @ \cup {author} ELSE @,
                             !.pos = @ + 1])
    /\ UNCHANGED <<engineVars, lastCall, schedVars>>

\* a loop that marks the author as timed out before the call is made
PlatformCallRaisesMarked ==
    /\ Quiet
    /\ moderation.pc = "awaiting"
    /\ LET m == moderation
           author == m.window[m.matches[m.pos]].author
       IN  moderation' =
             Apply([m EXCEPT !.pc = "applying",
                             !.calls[Len(m.calls)].outcome = "raised",
                             !.errors = Append(@, m.matches[m.pos]),
                             !.timed_out = IF m.action = "timeout"
                                           THEN @ \cup {author} ELSE @,
                             !.pos = @ + 1])
    /\ UNCHANGED <<engineVars, lastCall, schedVars>>

\* msg.delete or msg.author.timeout raises: except Exception as exc
PlatformCallRaises ==
    /\ Quiet
    /\ moderation.pc = "awaiting"
    /\ LET m == moderation
       IN  moderation' =
             Apply([m EXCEPT !.pc = "applying",
                             !.calls[Len(m.calls)].outcome = "raised",
                             !.errors = Append(@, m.matches[m.pos]),
                             !.pos = @ + 1])
    /\ UNCHANGED <<engineVars, lastCall, schedVars>>

\* call_tool has returned or raised and its frame is gone
ModerationEnds ==
    /\ Quiet
    /\ moderation.pc \in {"returned", "raised"}
    /\ moderation' = NoRun
    /\ UNCHANGED <<engineVars, lastCall, schedVars>>

NextMod ==
    \/ OnReady
    \/ CallAutoModerate
    \/ PlatformCallReturns
    \/ PlatformCallRaises
    \/ ModerationEnds

SpecMod == Init /\ [][NextMod]_vars

----------------------------------------------------------------------------
(* Properties of the rule engine.                                          *)

Range(seq) == {seq[i] : i \in 1..Len(seq)}

StoredRules == Range(automation_rules)

\* the store as the handler's loop went over it: rules are only ever
\* appended, and a loop that ended found the store's size unchanged
StoreSeen(h) == SubSeq(automation_rules, 1, h.iter_size)

\* the ids of the rules of that store the event matches, in store order
MatchedIds(h) ==
    LET Hit(rule) == RuleEnabled(rule) /\ LaterFilter(h, rule) = 0
        hits == SelectSeq(StoreSeen(h), Hit)
    IN  [i \in 1..Len(hits) |-> hits[i].id]

\* the handler ran its loop over the whole store and returned
PassComplete(h) == h.pc = "done" /\ h.entered

\* C1: for every event kind and every content of the rule store, a rule
\* whose enabled flag is false is never dispatched: its try block is not
\* entered, no platform call is issued for it, no failure is logged for it
\* and none of the filters after the enabled check is evaluated on it.
C1_DisabledNeverDispatched ==
    \A slot \in HandlerSlots : \A rule \in StoredRules :
        rule.enabled = "false" =>
            LET h == handlers[slot]
            IN  /\ rule.id \notin Range(h.examined)
                /\ rule.id \notin Range(h.dispatched)
                /\ rule.id \notin Range(h.failures)
                /\ \A k \in 1..Len(h.calls) : h.calls[k].rule # rule.id

\* a pass went over a disabled rule that the event would otherwise match,
\* and dispatched the enabled rule stored after it
C1_Witness ==
    \E slot \in HandlerSlots :
        LET h == handlers[slot]
        IN  /\ PassComplete(h)
            /\ h.iter_size = 2
            /\ automation_rules[1].enabled = "false"
            /\ automation_rules[1].trigger_type = EventTrigger(h.kind)
            /\ automation_rules[1].server_id = "None"
            /\ h.dispatched = <<automation_rules[2].id>>

\* C2: an exception raised by the action of one matched rule is caught by
\* that rule's except clause: it never ends the handler, it is logged for
\* that rule and for no other, and the pass still dispatches every stored
\* rule that matches the event, those after the failing rule included.
C2_FailureIsolation ==
    \A slot \in HandlerSlots :
        LET h == handlers[slot]
        IN  /\ h.error # "exception"
            /\ h.pc # "crashed" => h.failures = h.raised
            /\ Len(h.failures) <= Len(h.raised)
            /\ PassComplete(h) => h.dispatched = MatchedIds(h)

\* the action of the first of two matching rules raised, and the second
\* rule was dispatched all the same
C2_Witness ==
    \E slot \in HandlerSlots :
        LET h == handlers[slot]
        IN  /\ PassComplete(h)
            /\ Len(h.dispatched) = 2
            /\ h.raised = <<h.dispatched[1]>>
            /\ h.failures = <<h.dispatched[1]>>
            /\ \E k \in 1..Len(h.calls) : h.calls[k].rule = h.dispatched[2]

\* C7: a create_automation_rule call that fails on malformed input (a
\* missing name, trigger_type or action_type) leaves the rule store and
\* the rule-id counter exactly as they were before the call.
C7_RejectedCreateChangesNothing ==
    (lastCall.tool = "create_automation_rule" /\ lastCall.error = "KeyError") =>
        /\ automation_rules = lastCall.rules_before
        /\ automation_rule_counter = lastCall.rule_counter_before

\* C8: in every handler that assigns roles, add_roles is called only when
\* the member does not already hold the role, and on reaction removal
\* remove_roles only when the member holds it.
C8_RoleCallsCheckMembership ==
    \A slot \in HandlerSlots :
        LET h == handlers[slot]
        IN  \A k \in 1..Len(h.calls) :
                /\ h.calls[k].op = "add_roles" => ~h.calls[k].held
                /\ h.calls[k].op = "remove_roles" => h.calls[k].held

\* C9: on a reaction removal a rule whose action_payload has
\* remove_on_unreact set to false is never dispatched; a rule without the
\* key is treated as if it were true and is dispatched when it passes the
\* other filters.
C9_RemoveOnUnreact ==
    \A slot \in HandlerSlots :
        LET h == handlers[slot]
        IN  h.kind = "reaction_remove" =>
                \A rule \in StoredRules :
                    /\ rule.action_payload.remove_on_unreact = "false" =>
                          /\ rule.id \notin Range(h.dispatched)
                          /\ \A k \in 1..Len(h.calls) : h.calls[k].rule # rule.id
                    /\ ( /\ PassComplete(h)
                         /\ rule \in Range(StoreSeen(h))
                         /\ rule.action_payload.remove_on_unreact = "absent"
                         /\ rule.enabled = "true"
                         /\ rule.trigger_type = "reaction_added"
                         /\ rule.server_id = "None"
                         /\ rule.trigger_value = "None"
                         /\ rule.action_payload.message_id = "absent" )
                       => rule.id \in Range(h.dispatched)

\* a removal pass skipped a rule with remove_on_unreact false that passes
\* every other filter, and dispatched the rule without the key after it
C9_Witness ==
    \E slot \in HandlerSlots :
        LET h == handlers[slot]
        IN  /\ h.kind = "reaction_remove"
            /\ PassComplete(h)
            /\ h.iter_size = 2
            /\ automation_rules[1] =
                  NewRule(automation_rules[1].id,
                          [ReactionRole EXCEPT
                              !.action_payload.remove_on_unreact = "false"])
            /\ automation_rules[2].action_payload.remove_on_unreact = "absent"
            /\ h.dispatched = <<automation_rules[2].id>>
            /\ Len(h.calls) = 1

\* the place of a rule in the store
StorePos(rule_id) ==
    CHOOSE i \in 1..Len(automation_rules) : automation_rules[i].id = rule_id

\* the handler is suspended in a platform call made for a rule
InAction(h) ==
    h.pc \in {"fetch_channel", "send", "add_roles", "remove_roles"}

\* the platform calls that are a rule's action (fetch_channel only looks
\* the channel up)
ActionCalls(h, rule_id) ==
    {k \in 1..Len(h.calls) :
        /\ h.calls[k].rule = rule_id
        /\ h.calls[k].op \in {"send", "add_roles", "remove_roles"}}

\* C13: for one event the matched rules are dispatched in the store's
\* insertion order, one after another: the platform calls follow the same
\* order, and while the handler waits in a call, that call belongs to the
\* rule dispatched last, so no later rule is started before it returned
\* or raised.
C13_DispatchInStoreOrder ==
    \A slot \in HandlerSlots :
        LET h == handlers[slot]
        IN  /\ \A i, j \in 1..Len(h.dispatched) :
                  i < j => StorePos(h.dispatched[i]) < StorePos(h.dispatched[j])
            /\ \A k, l \in 1..Len(h.calls) :
                  k < l => StorePos(h.calls[k].rule) <= StorePos(h.calls[l].rule)
            /\ InAction(h) =>
                  /\ h.dispatched[Len(h.dispatched)] = automation_rules[h.pos].id
                  /\ h.calls[Len(h.calls)].rule = automation_rules[h.pos].id
            /\ PassComplete(h) => h.dispatched = MatchedIds(h)

\* a pass dispatched both stored rules, first to last, each with a call
C13_Witness ==
    \E slot \in HandlerSlots :
        LET h == handlers[slot]
        IN  /\ PassComplete(h)
            /\ Len(automation_rules) = 2
            /\ h.dispatched = <<automation_rules[1].id, automation_rules[2].id>>
            /\ Len(h.calls) >= 2
            /\ h.calls[1].rule = automation_rules[1].id
            /\ h.calls[Len(h.calls)].rule = automation_rules[2].id
            /\ h.raised = <<automation_rules[1].id>>

\* the ids of the rules of the whole store the event of h matches
TriggeredNow(h) ==
    LET Hit(rule) == RuleEnabled(rule) /\ LaterFilter(h, rule) = 0
        hits == SelectSeq(automation_rules, Hit)
    IN  [i \in 1..Len(hits) |-> hits[i].id]

\* the handler still has a rule to dispatch that its event triggers
DispatchPending(h) ==
    IF h.entered THEN h.pc # "crashed" /\ h.dispatched # MatchedIds(h)
    ELSE h.pc = "fetch_member" /\ TriggeredNow(h) # <<>>

\* C14: event A (slot h1) is observed before event B (slot h2): in the
\* step in which the handler of B enters its loop over the rule store, the
\* handler of A has no triggered rule left to dispatch, at whichever
\* suspension points the two handlers interleave.
C14_EarlierEventDispatchedFirst ==
    [][ (~handlers["h2"].entered /\ handlers'["h2"].entered) =>
            ~DispatchPending(handlers["h1"]) ]_vars

\* C15: a rule inserted by create_automation_rule while a handler is
\* suspended in an action does not abort the handler: it never dies of
\* the changed store, and when it ends it has dispatched every matching
\* rule that was in the store when its loop began.
C15_InsertDuringPassTolerated ==
    \A slot \in HandlerSlots :
        LET h == handlers[slot]
        IN  /\ h.error # "dict_changed"
            /\ h.pc # "crashed"
            /\ (h.entered /\ h.pc = "done") => h.dispatched = MatchedIds(h)

\* C16: a step of an event handler never changes the rule store or the
\* rule counter: whether the action returned or raised, every rule keeps
\* its fields (enabled included) and no rule is added or removed.
C16_HandlersLeaveStoreAlone ==
    [][ handlers' # handlers =>
           /\ automation_rules' = automation_rules
           /\ automation_rule_counter' = automation_rule_counter ]_vars

\* a pass in which the action of a rule raised has ended, and the rule is
\* still stored and enabled
C16_Witness ==
    \E slot \in HandlerSlots :
        LET h == handlers[slot]
        IN  /\ PassComplete(h)
            /\ Len(h.raised) = 1
            /\ Len(automation_rules) = h.iter_size
            /\ automation_rules[StorePos(h.raised[1])].enabled = "true"

\* C18: while one event is handled, at most one action call (one send,
\* one add_roles or one remove_roles) is made for each rule.
C18_OneActionPerRule ==
    \A slot \in HandlerSlots :
        LET h == handlers[slot]
        IN  \A i \in 1..Len(automation_rules) :
                Cardinality(ActionCalls(h, automation_rules[i].id)) <= 1

\* a pass made one send for a send_message rule and one add_roles for a
\* role rule
C18_Witness ==
    \E slot \in HandlerSlots :
        LET h == handlers[slot]
        IN  /\ PassComplete(h)
            /\ Len(h.dispatched) = 2
            /\ \E k \in ActionCalls(h, h.dispatched[1]) : h.calls[k].op = "send"
            /\ \E k \in ActionCalls(h, h.dispatched[2]) : h.calls[k].op = "add_roles"

\* the payload content with each placeholder piece replaced, in one pass,
\* by the value the event has for it (a member joining has no emoji)
C20_Filled(h, rule) ==
    LET given == rule.action_payload.content
        content == IF given # NoContent THEN given
                   ELSE IF h.kind = "member_join" THEN <<"Welcome to the server!">>
                   ELSE <<"Reaction received!">>
    IN  [i \in 1..Len(content) |->
            CASE content[i] = "{user}" -> Mention
              [] content[i] = "{username}" -> h.name
              [] content[i] = "{server}" -> GuildName(h.guild)
              [] content[i] = "{emoji}" /\ h.kind # "member_join" -> h.emoji
              [] OTHER -> content[i]]

\* C20: the content a matched send_message rule sends, on a member join
\* and on a reaction add alike, is the payload content with every {user},
\* {username}, {server} and {emoji} replaced by the event's value for it.
C20_PlaceholdersFilled ==
    \A slot \in HandlerSlots :
        LET h == handlers[slot]
        IN  \A k \in 1..Len(h.calls) :
                h.calls[k].op = "send" =>
                    h.calls[k].content =
                        C20_Filled(h, automation_rules[StorePos(h.calls[k].rule)])

\* the payload content with the placeholders the handler knows replaced in
\* one pass: an inserted value is not looked at again
C25_OnePass(h, rule) ==
    LET given == rule.action_payload.content
        content == IF given # NoContent THEN given
                   ELSE IF h.kind = "member_join" THEN <<"Welcome to the server!">>
                   ELSE <<"Reaction received!">>
    IN  [i \in 1..Len(content) |->
            CASE content[i] = "{user}" -> Mention
              [] content[i] = "{username}" -> h.name
              [] content[i] = "{server}" /\ h.kind = "member_join" -> GuildName(h.guild)
              [] content[i] = "{emoji}" /\ h.kind # "member_join" -> h.emoji
              [] OTHER -> content[i]]

\* C25: placeholder substitution is single-pass: a value inserted for one
\* placeholder is sent as it is, so a placeholder occurring inside an
\* inserted value (a member named {server} or {emoji}) is not expanded by
\* a later replacement step.
C25_SubstitutionSinglePass ==
    \A slot \in HandlerSlots :
        LET h == handlers[slot]
        IN  \A k \in 1..Len(h.calls) :
                h.calls[k].op = "send" =>
                    h.calls[k].content =
                        C25_OnePass(h, automation_rules[StorePos(h.calls[k].rule)])

\* C26: while the client is not ready (before on_ready, or after
\* on_disconnect and before the next on_ready) no event dispatches a rule
\* action: no platform call is issued for a rule, and every tool call is
\* rejected with an error and leaves the rule store, the task map and both
\* counters as they were.
C26_NothingWhileNotReady ==
    /\ \A slot \in HandlerSlots :
          \A k \in 1..Len(handlers[slot].calls) :
              handlers[slot].calls[k].client # "None"
    /\ (~Quiet /\ discord_client = "None") =>
          /\ lastCall.error = "RuntimeError"
          /\ automation_rules = lastCall.rules_before
          /\ automation_rule_counter = lastCall.rule_counter_before
          /\ scheduled_tasks = lastCall.tasks_before
          /\ scheduled_task_counter = lastCall.task_counter_before

\* C28: a rule with trigger_type message_contains is accepted and stored by
\* create_automation_rule (a call made while the client is ready returns
\* and the store has grown by the rule) but is never dispatched: no handler
\* (member join, reaction add, reaction remove, message delete) enters its
\* try block for it or issues a platform call for it.
C28_KeywordRuleNeverDispatched ==
    /\ (lastCall.tool = "create_automation_rule" /\ discord_client # "None") =>
          /\ lastCall.error = "none"
          /\ Len(automation_rules) = Len(lastCall.rules_before) + 1
    /\ \A rule \in StoredRules :
          rule.trigger_type = "message_contains" =>
              \A slot \in HandlerSlots :
                  LET h == handlers[slot]
                  IN  /\ rule.id \notin Range(h.dispatched)
                      /\ rule.id \notin Range(h.raised)
                      /\ \A k \in 1..Len(h.calls) : h.calls[k].rule # rule.id

\* a message_contains rule with an action is stored; a message containing
\* its keyword was deleted and the deletion logged for the staff
C28_Witness ==
    /\ \E rule \in StoredRules :
          /\ rule.trigger_type = "message_contains"
          /\ rule.trigger_value = "kw"
          /\ rule.action_type = "send_message"
    /\ handlers["h1"].kind = "message_delete"
    /\ handlers["h1"].pc = "done"
    /\ Len(handlers["h1"].calls) = 1
    /\ handlers["h1"].calls[1].content = <<"kw">>

\* the external action calls of a handler, in order: the operation and what
\* it is applied to
C30_ActionCalls(h) ==
    [k \in 1..Len(h.calls) |->
        [op |-> h.calls[k].op, arg |-> h.calls[k].arg,
         rule |-> h.calls[k].rule, content |-> h.calls[k].content]]

\* the two handlers ended after handling the same event, with the same
\* rule store and the same member before them
C30_SameEventHandled(a, b) ==
    /\ a.pc \in {"done", "crashed"}
    /\ b.pc \in {"done", "crashed"}
    /\ a.kind # "none"
    /\ a.kind = b.kind
    /\ <<a.guild, a.name, a.emoji, a.msg>> = <<b.guild, b.name, b.emoji, b.msg>>
    /\ a.roles_seen = b.roles_seen
    /\ a.iter_size = b.iter_size
    /\ a.iter_size = Len(automation_rules)
    /\ a.error # "dict_changed"
    /\ b.error # "dict_changed"

\* C30: the standalone runner's handlers are copies of the server's: for
\* the same rule store and the same member-join, reaction-add or
\* reaction-remove event, the handler of railway_bot.py issues the same
\* sequence of external action calls as the handler of server.py.
C30_RunnerIssuesSameCalls ==
    C30_SameEventHandled(handlers["h1"], handlers["h2"]) =>
        C30_ActionCalls(handlers["h2"]) = C30_ActionCalls(handlers["h1"])

\* the five conditions on a rule and a reaction event
C23_Satisfies(h, rule) ==
    /\ rule.enabled = "true"
    /\ rule.trigger_type = "reaction_added"
    /\ rule.server_id \in {"None", ""} \/ Str(rule.server_id) = Str(h.guild)
    /\ rule.trigger_value \in {"None", ""} \/ rule.trigger_value = h.emoji
    /\ \/ rule.action_payload.message_id \in {"absent", "None"}
       \/ Str(rule.action_payload.message_id) = Str(h.msg)

C22_StoredRulesSupported ==
    \A rule \in StoredRules :
        /\ rule.trigger_type \in {"member_join", "reaction_added", "message_contains"}
        /\ rule.action_type \in {"send_message", "assign_role", "log"}

----------------------------------------------------------------------------
(* Properties of the scheduler.                                            *)

\* C3: every task's status only follows scheduled -> running -> completed
\* or scheduled -> running -> failed: the record is created in scheduled,
\* running is written in the step that invokes the action, and one
\* terminal status is written, once, and nothing is written after it.
C3_TaskLifecycle ==
    \A task_id \in DOMAIN runners :
        LET r == runners[task_id]
            w == r.writes
        IN  /\ w \in {<<>>, <<"running">>, <<"running", "completed">>,
                      <<"running", "failed">>}
            /\ task_id \in DOMAIN scheduled_tasks
            /\ scheduled_tasks[task_id].status =
                  (IF w = <<>> THEN "scheduled" ELSE w[Len(w)])
            /\ r.invoked = (IF w = <<>> THEN 0 ELSE 1)
            /\ r.pc \in {"created", "sleeping"} => w = <<>>
            /\ r.pc = "invoking" => w = <<"running">>
            /\ r.pc = "finished" => Len(w) = 2

\* one task ran to completed and another to failed
C3_Witness ==
    \E a, b \in DOMAIN runners :
        /\ runners[a].writes = <<"running", "completed">>
        /\ scheduled_tasks[a].status = "completed"
        /\ runners[b].writes = <<"running", "failed">>
        /\ scheduled_tasks[b].status = "failed"

\* C4: when a task's record is removed from the task map before its timer
\* fires, the fired timer invokes nothing and writes no status: the run
\* ends without effect.
C4_CancelledNeverRuns ==
    \A task_id \in DOMAIN runners :
        LET r == runners[task_id]
        IN  r.cancelled =>
                /\ r.invoked = 0
                /\ r.external = 0
                /\ r.writes = <<>>
                /\ r.pc \in {"created", "sleeping", "dropped"}
                /\ task_id \notin DOMAIN scheduled_tasks

\* a task slept, was removed meanwhile, and its timer then fired
C4_Witness ==
    \E task_id \in DOMAIN runners :
        /\ runners[task_id].cancelled
        /\ runners[task_id].slept
        /\ runners[task_id].pc = "dropped"

\* C5: the computed delay is never negative; a task submitted with run_at
\* at or before the current time has delay 0 and is run without sleeping,
\* in the step that starts its coroutine, exactly like a task submitted
\* with delay_seconds = 0.
C5_PastRunsAtOnce ==
    \A task_id \in DOMAIN runners :
        LET r == runners[task_id]
        IN  /\ r.delay >= 0
            /\ r.timing \in {"run_at_past", "run_at_now", "delay_zero"} =>
                  /\ r.delay = 0
                  /\ ~r.slept
                  /\ r.pc \in {"created", "invoking", "finished"}
                  /\ r.pc # "created" => r.invoked = 1

\* a task submitted with a run_at already in the past, and a task
\* submitted with delay_seconds = 0, both ran
C5_Witness ==
    \E a, b \in DOMAIN runners :
        /\ runners[a].timing = "run_at_past"
        /\ runners[a].run_at < now
        /\ runners[a].writes = <<"running", "completed">>
        /\ runners[b].timing = "delay_zero"
        /\ runners[b].writes = <<"running", "completed">>

\* the calls the scheduler has to reject
C6_MustReject(call) ==
    \/ /\ call.tool = "schedule_task"
       /\ call.args.task_type \notin
             {"send_message", "bulk_add_roles", "bulk_modify_members"}
    \/ call.args.run_at.k = "bogus"
    \/ /\ call.args.run_at.k \in {"absent", "empty"}
       /\ call.args.delay_seconds.k = "absent"

\* C6: a schedule_task or send_scheduled_message call with a task_type
\* outside the allow-list, an unparseable run_at, or neither run_at nor
\* delay_seconds raises, and a call that raises leaves the task map and
\* the task-id counter unchanged and starts no timer.
C6_RejectedScheduleChangesNothing ==
    lastCall.tool \in {"schedule_task", "send_scheduled_message"} =>
        /\ C6_MustReject(lastCall) => lastCall.error # "none"
        /\ lastCall.error # "none" =>
              /\ scheduled_tasks = lastCall.tasks_before
              /\ scheduled_task_counter = lastCall.task_counter_before
              /\ runners = lastCall.runners_before

\* with one task already scheduled, a schedule_task call for a task type
\* outside the allow-list was rejected
C6_Witness ==
    /\ lastCall.tool = "schedule_task"
    /\ lastCall.error = "ValueError"
    /\ lastCall.args.task_type = "ban_user"
    /\ scheduled_task_counter = 1
    /\ DOMAIN runners = {1}

----------------------------------------------------------------------------
(* Properties of auto-moderation.                                          *)

\* C10: an auto_moderate_by_pattern call with dry_run = true, or with
\* dry_run omitted, or with action = report whatever dry_run is, issues no
\* delete and no timeout call, never waits on the platform, and where it
\* reports, for each supported pattern type and action, it reports
\* Applied: 0.
C10_DryRunHasNoEffect ==
    LET m == moderation
    IN  (/\ m.pc # "idle"
         /\ \/ m.args.dry_run \in {"true", "absent"}
            \/ m.args.action = "report") =>
            /\ m.calls = <<>>
            /\ m.timed_out = {}
            /\ m.pc \in {"returned", "raised"}
            /\ m.pc = "returned" =>
                  /\ m.report.applied = 0
                  /\ m.report.matched = Len(m.matches)
            /\ m.pc = "raised" =>
                  \/ m.error = "RuntimeError"
                  \/ m.args.pattern_type = "raid"
                  \/ m.args.action = "ban"

\* a dry run with action delete matched two messages and reported
C10_Witness ==
    /\ moderation.pc = "returned"
    /\ moderation.args.dry_run = "true"
    /\ moderation.args.action = "delete"
    /\ Len(moderation.matches) = 2
    /\ moderation.report.applied = 0
    /\ moderation.calls = <<>>

\* the same call as a dry run that only reports
C11_AsDryRun(args) ==
    [args EXCEPT !.dry_run = "true", !.action = "report",
                 !.timeout_minutes = Absent]

\* C11: for the same window, pattern type and thresholds the matched
\* message ids, as a sequence, are those of a dry run that only reports:
\* they do not depend on dry_run, on the action, or on whether a delete or
\* timeout call failed, and the report counts exactly them.
C11_MatchesIndependentOfDryRun ==
    LET m == moderation
    IN  m.action # "none" =>
            /\ m.matches = Matches(C11_AsDryRun(m.args), m.window)
            /\ m.pc = "returned" =>
                  m.report.matched = Len(Matches(C11_AsDryRun(m.args), m.window))

\* a live delete run over two matched messages, one delete failed and one
\* succeeded, and the run reported both as matched
C11_Witness ==
    /\ moderation.pc = "returned"
    /\ moderation.args.dry_run = "false"
    /\ moderation.action = "delete"
    /\ Len(moderation.errors) = 1
    /\ moderation.applied = 1
    /\ moderation.report.matched = 2

\* the timeout calls of the run that returned, and those that raised
C29_Succeeded(m) == {k \in 1..Len(m.calls) : m.calls[k].outcome = "returned"}

C29_Failed(m) == {k \in 1..Len(m.calls) : m.calls[k].outcome = "raised"}

\* the matched messages of an author after message id, in window order
C29_LaterMatches(m, author, id) ==
    {j \in 1..Len(m.matches) :
        /\ m.matches[j] > id
        /\ m.window[m.matches[j]].author = author}

\* C29: in a live run with action timeout each author is successfully timed
\* out at most once however many of their messages matched; a timeout call
\* that fails is recorded as an error for its message, the run goes on to
\* the later matches and ends with its report, and the author's next
\* matched message gets a timeout call of its own; Applied is the number of
\* timeout calls that succeeded.
C29_TimeoutOncePerAuthor ==
    LET m == moderation
    IN  (m.action = "timeout" /\ m.args.dry_run = "false") =>
            /\ \A k, l \in C29_Succeeded(m) :
                   k # l => m.calls[k].author # m.calls[l].author
            /\ m.timed_out = {m.calls[k].author : k \in C29_Succeeded(m)}
            /\ \A k \in C29_Failed(m) : m.calls[k].msg \in Range(m.errors)
            /\ \A k \in C29_Succeeded(m) : m.calls[k].msg \notin Range(m.errors)
            /\ \A k \in C29_Failed(m) :
                   LET later == C29_LaterMatches(m, m.calls[k].author, m.calls[k].msg)
                   IN  later # {} =>
                         LET next == CHOOSE j \in later : \A i \in later : j <= i
                         IN  m.pos > next =>
                               \E l \in 1..Len(m.calls) :
                                   /\ l > k
                                   /\ m.calls[l].msg = m.matches[next]
                                   /\ m.calls[l].op = "timeout"
            /\ m.pc \in {"awaiting", "returned"}
            /\ m.applied = Cardinality(C29_Succeeded(m))
            /\ m.pc = "returned" =>
                   /\ m.pos = Len(m.matches) + 1
                   /\ m.report.applied = Cardinality(C29_Succeeded(m))

\* two matched messages of one member: the timeout for the first failed,
\* the one for the second succeeded, and the run reported Applied: 1
C29_Witness ==
    LET m == moderation
    IN  /\ m.pc = "returned"
        /\ m.action = "timeout"
        /\ Len(m.calls) = 2
        /\ m.calls[1].author = m.calls[2].author
        /\ m.calls[1].outcome = "raised"
        /\ m.calls[2].outcome = "returned"
        /\ m.errors = <<m.calls[1].msg>>
        /\ m.report.applied = 1

\* the task has reached completed or failed
Terminal(task_id) ==
    /\ task_id \in DOMAIN scheduled_tasks
    /\ scheduled_tasks[task_id].status \in {"completed", "failed"}

\* C17: the action of a task is invoked at most once, and once the task is
\* completed or failed no step invokes it again, reaches the platform for
\* it again, or changes its status.
C17_NoRetry ==
    [][ \A task_id \in DOMAIN runners :
           /\ runners'[task_id].invoked <= 1
           /\ runners'[task_id].external <= 1
           /\ Terminal(task_id) =>
                 /\ scheduled_tasks'[task_id].status = scheduled_tasks[task_id].status
                 /\ runners'[task_id].invoked = runners[task_id].invoked
                 /\ runners'[task_id].pc = "finished" ]_vars

\* a task failed after its one invocation, and time went on
C17_Witness ==
    \E task_id \in DOMAIN runners :
        /\ scheduled_tasks[task_id].status = "failed"
        /\ runners[task_id].invoked = 1
        /\ runners[task_id].external = 1
        /\ runners[task_id].run_at < now

\* C21: a scheduled task ends completed exactly when the invoked action
\* returned without raising, and ends failed with the error text recorded
\* exactly when the invoked action raised; error is never set on a completed
\* task and result is never set on a failed task
C21_OutcomeRecorded ==
    \A task_id \in DOMAIN scheduled_tasks :
        LET entry == scheduled_tasks[task_id]
            r     == runners[task_id]
        IN  /\ entry.status = "completed" <=> r.ended = "returned"
            /\ entry.status = "failed" <=> r.ended = "raised"
            /\ entry.status = "failed" => entry.error # "None"
            /\ entry.status = "completed" => entry.error = "None"
            /\ entry.status = "failed" => entry.result = "None"

\* one task ended completed with its result, another failed with its error
C21_Witness ==
    \E done, broken \in DOMAIN scheduled_tasks :
        /\ runners[done].ended = "returned"
        /\ scheduled_tasks[done].status = "completed"
        /\ scheduled_tasks[done].result = "text"
        /\ runners[broken].ended = "raised"
        /\ runners[broken].external = 1
        /\ scheduled_tasks[broken].status = "failed"
        /\ scheduled_tasks[broken].error = "exception"

\* C24: every task recorded by schedule_task or send_scheduled_message
\* eventually reaches completed or failed (its record is never removed),
\* when the event loop runs the ready coroutines, time passes and the
\* invoked action eventually returns or raises: no task stays scheduled or
\* running forever.
C24_EveryTaskEnds ==
    \A task_id \in TaskIds :
        (task_id \in DOMAIN scheduled_tasks) ~> Terminal(task_id)

\* a task that slept until its time has ended, and so has one that was
\* due at once
C24_Witness ==
    \E slow, fast \in DOMAIN scheduled_tasks :
        /\ Terminal(slow)
        /\ runners[slow].slept
        /\ runners[slow].wake <= now
        /\ runners[slow].external = 1
        /\ Terminal(fast)
        /\ ~runners[fast].slept

\* C27: a task whose timer fires while the client is disconnected goes
\* scheduled -> running -> failed with the not-ready error recorded,
\* invokes no external action, and is not run again, whether or not the
\* client has reconnected since.
C27_FiredWhileDisconnected ==
    \A task_id \in DOMAIN runners :
        LET r == runners[task_id]
        IN  r.client_at_fire = "None" =>
                /\ r.writes = <<"running", "failed">>
                /\ scheduled_tasks[task_id].status = "failed"
                /\ scheduled_tasks[task_id].error = "RuntimeError"
                /\ scheduled_tasks[task_id].result = "None"
                /\ r.external = 0
                /\ r.invoked = 1
                /\ r.pc = "finished"

\* a task slept, its timer fired while the client was away, and the client
\* is back
C27_Witness ==
    \E task_id \in DOMAIN runners :
        /\ runners[task_id].client_at_fire = "None"
        /\ runners[task_id].slept
        /\ scheduled_tasks[task_id].status = "failed"
        /\ discord_client = "client"

----------------------------------------------------------------------------
(* Properties of the id counters.                                          *)

\* C12: in every order of create_automation_rule, schedule_task and
\* send_scheduled_message calls, rule ids are pairwise different and
\* strictly increasing in creation order, task ids likewise, each call
\* that creates hands out an id above every id of its namespace so far,
\* and a rule call leaves the task counter and task map alone as a task
\* call leaves the rule counter and rule store alone.
C12_IdsUniquePerNamespace ==
    /\ \A i, j \in 1..Len(automation_rules) :
          i < j => automation_rules[i].id < automation_rules[j].id
    /\ \A i \in 1..Len(automation_rules) :
          automation_rules[i].id \in 1..automation_rule_counter
    /\ \A task_id \in DOMAIN scheduled_tasks :
          /\ scheduled_tasks[task_id].id = task_id
          /\ task_id \in 1..scheduled_task_counter
    /\ DOMAIN runners = DOMAIN scheduled_tasks
    /\ lastCall.tool = "create_automation_rule" =>
          /\ scheduled_task_counter = lastCall.task_counter_before
          /\ scheduled_tasks = lastCall.tasks_before
          /\ lastCall.error = "none" =>
                /\ Len(automation_rules) = Len(lastCall.rules_before) + 1
                /\ automation_rules[Len(automation_rules)].id
                      = automation_rule_counter
                /\ automation_rule_counter > lastCall.rule_counter_before
    /\ lastCall.tool \in {"schedule_task", "send_scheduled_message"} =>
          /\ automation_rule_counter = lastCall.rule_counter_before
          /\ automation_rules = lastCall.rules_before
          /\ lastCall.error = "none" =>
                /\ scheduled_task_counter \notin DOMAIN lastCall.tasks_before
                /\ DOMAIN scheduled_tasks =
                      DOMAIN lastCall.tasks_before \cup {scheduled_task_counter}
                /\ scheduled_task_counter > lastCall.task_counter_before
                /\ \A task_id \in DOMAIN lastCall.tasks_before :
                      /\ task_id < scheduled_task_counter
                      /\ scheduled_tasks[task_id] = lastCall.tasks_before[task_id]

\* with two rules and one task stored, a second task was created
C12_Witness ==
    /\ lastCall.tool = "schedule_task"
    /\ lastCall.error = "none"
    /\ lastCall.task_counter_before = 1
    /\ lastCall.rule_counter_before = 2
    /\ Len(automation_rules) = 2
    /\ DOMAIN scheduled_tasks = {1, 2}

\* the size of the group of message i: the messages of the window by the
\* same author whose trimmed, lower-cased content is the same
C19_GroupSize(window, i) ==
    Cardinality({ j \in 1..Len(window) :
                     /\ window[j].author = window[i].author
                     /\ Lower(Strip(window[j].content))
                           = Lower(Strip(window[i].content)) })

\* C19: repeated_message flags exactly the messages whose group, keyed by
\* author and trimmed lower-cased content, has at least threshold
\* members, for every window and threshold, messages whose trimmed
\* content is empty included.
C19_RepeatedMessageExact ==
    LET m == moderation
        threshold == IF m.args.thresholds.repeat_threshold.k = "absent" THEN 3
                     ELSE m.args.thresholds.repeat_threshold.t
        InGroup(i) == C19_GroupSize(m.window, i) >= threshold
    IN  (m.action # "none" /\ m.args.pattern_type = "repeated_message") =>
            m.matches = SelectSeq([i \in 1..Len(m.window) |-> i], InGroup)

============================================================================
